---- MODULE Spec2Model ----
(***************************************************************************)
(* Model of the sync engine of motherduck-supasync: SyncClient::sync and   *)
(* sync_table (src/sync.rs), PostgresClient::fetch_rows / mark_synced      *)
(* (src/postgres.rs) and MotherDuckClient::upsert_rows / batch_upsert      *)
(* (src/motherduck.rs).                                                    *)
(*                                                                         *)
(* One behaviour is a sequence of sync() calls on one SyncClient.  sync()  *)
(* is cut at its I/O boundaries: every action is the stretch of code from  *)
(* one await / driver call to the next, with the outcome of the driver     *)
(* call (success or an error) chosen by the environment.                   *)
(***************************************************************************)
EXTENDS Integers, Sequences, FiniteSets, TLC

VARIABLES
    config,          \* SyncConfig: tables and the SyncBehaviorConfig fields
    src_flag,        \* source store: table -> rows whose sync flag is TRUE
    target_tables,   \* target store: names of the tables that exist
    target,          \* target store: table -> committed rows
    tx_open,         \* target connection: a transaction is open
    pc,              \* position of the control flow of sync()
    mode,            \* SyncMode of the running / last call
    i,               \* index of the mapping the for loop is at
    rows,            \* sync_table: the fetched rows
    total,           \* batch_upsert: rows written by the committed chunks
    table_results,   \* sync: HashMap source_table -> TableSyncResult
    overall_success, \* sync: overall_success
    result,          \* value returned by the last sync() call
    prev,            \* value returned by the call before it
    events,          \* SyncProgress values handed to the progress callback
    ops,             \* driver operations issued by the running / last call
    run,             \* number of sync() calls started
    faults,          \* number of errors raised by the two stores so far
    warnings,        \* errors of ensure_target_table logged by the running call
    call             \* the last call made to a function of the stores' clients

vars == <<config, src_flag, target_tables, target, tx_open, pc, mode, i, rows,
          total, table_results, overall_success, result, prev, events, ops,
          run, faults, warnings, call>>

(***************************************************************************)
(* Bounds of the model.                                                    *)
(***************************************************************************)
MaxRuns == 2
MaxFaults == 1
MaxBatch == 2
MaxRecordsLimit == 1
MaxMappings == 2
MaxLen == 3
MaxItems == 2

(***************************************************************************)
(* Values.                                                                 *)
(***************************************************************************)
\* SQL NULL of a source column (JsonValue::Null once fetched).
NULL == "<NULL>"

\* Option<String>: None and Some(s).
None == <<>>
Some(s) == <<s>>

\* Result<SyncResult>: no call has returned yet / the call returned Err.
NoCall == [fn |-> "none"]
NoResult == [kind |-> "none"]
ErrResult == [kind |-> "err"]

Min(a, b) == IF a < b THEN a ELSE b

\* HashMap::insert.
Insert(map, k, v) == [x \in (DOMAIN map) \cup {k} |-> IF x = k THEN v ELSE map[x]]

Range(s) == {s[n] : n \in 1..Len(s)}

(***************************************************************************)
(* The source store.  Table a has the composite key (k1, k2), so k1 alone  *)
(* does not identify a row; table b has a NULL and the text 'null' in k1.  *)
(* Every table also has the sync flag column, kept in src_flag.  There is  *)
(* no table c in the source.                                               *)
(***************************************************************************)
SourceTables == {"a", "b"}
TargetTables == {"ta", "tb"}

SourceRows ==
    [a |-> << [k1 |-> "1", k2 |-> "x"], [k1 |-> "1", k2 |-> "y"], [k1 |-> "2", k2 |-> "x"] >>,
     b |-> << [k1 |-> "null", k2 |-> "x"], [k1 |-> NULL, k2 |-> "y"] >>]

SourceColumns == {"k1", "k2"}

\* The target store before the first call: table tb, keyed by k1, holds a
\* row of an earlier state of the source (key 1) and a row no mapping of the
\* model writes (key 9).
TargetRows ==
    [ta |-> {},
     tb |-> {[k1 |-> "1", k2 |-> "old"], [k1 |-> "9", k2 |-> "q"]}]

RowsOf(t) == IF t \in SourceTables THEN Range(SourceRows[t]) ELSE {}

(***************************************************************************)
(* TableMapping (config.rs:203-239).  The filter is a raw SQL predicate;   *)
(* the model has two, k2 = 'x' and k2 = 'y' OR k2 = 'x'.                   *)
(***************************************************************************)
Filters == {"k2 = 'x'", "k2 = 'y' OR k2 = 'x'"}

\* column_mappings of the mappings of the model: the mapping a -> tb renames
\* column k2 to kind, the other mappings rename nothing.
ColumnMappings(s, t) ==
    IF s = "a" /\ t = "tb" THEN [k2 |-> "kind"] ELSE <<>>

\* columns of the mappings of the model: the mapping b -> tb lists column k1,
\* the other mappings list nothing (empty = all).
Columns(s, t) ==
    IF s = "b" /\ t = "tb" THEN <<"k1">> ELSE <<>>

Mapping(s, t, pk, f, o, e) ==
    [source_table |-> s, target_table |-> t, primary_key |-> pk,
     columns |-> Columns(s, t),
     column_mappings |-> ColumnMappings(s, t),
     filter |-> f, order_by |-> o, enabled |-> e]

\* TableMapping::target_column (config.rs:248-253).
target_column(mapping, source) ==
    IF source \in DOMAIN mapping.column_mappings
    THEN mapping.column_mappings[source]
    ELSE source

\* The mappings a configuration is built from: two mappings read table a
\* (one keyed by the whole key, enabled or not, and one keyed by its first
\* column and filtered), both ordered, one reads table b in no order, and
\* one names the source table c, which does not exist.
MappingChoices ==
    { Mapping("a", "ta", <<"k1", "k2">>, None, Some("k1, k2"), e) : e \in BOOLEAN }
    \cup { Mapping("a", "tb", <<"k1">>, Some("k2 = 'x'"), Some("k1, k2"), TRUE) }
    \cup { Mapping("b", "tb", <<"k1">>, None, None, TRUE) }
    \cup { Mapping("c", "ta", <<"k1">>, None, None, TRUE) }

\* SyncConfig.tables: every list of 1..MaxMappings mappings in which no two
\* mappings pair the same source table with the same target table.
TableLists ==
    {l \in UNION { [1..n -> MappingChoices] : n \in 1..MaxMappings } :
        \A j, k \in DOMAIN l :
            (l[j].source_table = l[k].source_table
                /\ l[j].target_table = l[k].target_table) => j = k}

\* The operands of the ORs of a filter that are not inside parentheses, and
\* whether a row satisfies one of them.
Disjuncts(f) ==
    IF f = "k2 = 'y' OR k2 = 'x'" THEN <<"k2 = 'y'", "k2 = 'x'">> ELSE <<f>>
Holds(atom, r) ==
    \/ atom = "k2 = 'x'" /\ r.k2 = "x"
    \/ atom = "k2 = 'y'" /\ r.k2 = "y"

\* The row satisfies the filter of the mapping, if it has one.
FilterHolds(mapping, r) ==
    \/ mapping.filter = None
    \/ /\ mapping.filter # None
       /\ \E k \in DOMAIN Disjuncts(mapping.filter[1]) :
              Holds(Disjuncts(mapping.filter[1])[k], r)

\* The mappings the functions of the clients are called with: those of the
\* configurations whose source table exists, and one whose filter is a
\* disjunction.
CallMappings ==
    {m \in MappingChoices : m.source_table \in SourceTables}
    \cup { Mapping("b", "ta", <<"k1">>, Some("k2 = 'y' OR k2 = 'x'"), None, TRUE) }

(***************************************************************************)
(* SyncProgress (sync.rs:90-103) and TableSyncResult (sync.rs:68-85).      *)
(* duration_ms and completed_at are wall-clock readings and are left out.  *)
(***************************************************************************)
\* (SyncProgress_Remaining: percent is the part that is still to do.)
SyncProgress_Remaining(mapping, phase, processed, total_records, percent) ==
    [table |-> mapping.source_table, phase |-> phase,
     records_processed |-> processed, total_records |-> total_records,
     percent |-> 100 - percent]
SyncProgress(mapping, phase, processed, total_records, percent) ==
    [table |-> mapping.source_table, phase |-> phase,
     records_processed |-> processed, total_records |-> total_records,
     percent |-> percent]

\* The phases of SyncPhase (sync.rs:105-120).
SyncPhase == {"Connecting", "Fetching", "Inserting", "Marking", "Completed", "Failed"}

\* The Ok arm of the match at sync.rs:222-230; mapping is the index of the
\* mapping the result was built for.  (OkTableResult_NeedsRows: a table
\* counts as synced only when rows were written.)
OkTableResult_NeedsRows(n, synced, failed) ==
    [source_table |-> config.tables[n].source_table,
     target_table |-> config.tables[n].target_table,
     success |-> synced > 0, records_synced |-> synced, records_failed |-> failed,
     error |-> None, mapping |-> n]
OkTableResult(n, synced, failed) ==
    [source_table |-> config.tables[n].source_table,
     target_table |-> config.tables[n].target_table,
     success |-> TRUE, records_synced |-> synced, records_failed |-> failed,
     error |-> None, mapping |-> n]

\* The Err arm of the match at sync.rs:231-243.
\* (ErrTableResult_Counts: the result counts the rows written so far.)
ErrTableResult_Counts(n, e) ==
    [source_table |-> config.tables[n].source_table,
     target_table |-> config.tables[n].target_table,
     success |-> FALSE, records_synced |-> total,
     records_failed |-> Len(rows) - total,
     error |-> Some(e), mapping |-> n]
ErrTableResult(n, e) ==
    [source_table |-> config.tables[n].source_table,
     target_table |-> config.tables[n].target_table,
     success |-> FALSE, records_synced |-> 0, records_failed |-> 0,
     error |-> Some(e), mapping |-> n]

\* One driver operation, as the stores see it.
Op(op, n, ok, rs, changed) ==
    [op |-> op, m |-> n, ok |-> ok, rows |-> rs, changed |-> changed]

\* The positions in ops of the operations of mapping n with these names.
OpsOf(n, names) == {k \in 1..Len(ops) : ops[k].m = n /\ ops[k].op \in names}

\* RetryConfig.max_retries (config.rs:359-362): no retry, or the default 3.
RetryChoices == {0, 3}

(***************************************************************************)
(* Initial state: a freshly constructed SyncClient (sync.rs:146-158) over  *)
(* a source in which no row is marked as synced and a target in which      *)
(* table tb exists, with the rows of TargetRows, and table ta does not.    *)
(***************************************************************************)
Init ==
    /\ config \in [tables : TableLists,
                    mark_synced : BOOLEAN,
                    use_transactions : BOOLEAN,
                    auto_create_tables : BOOLEAN,
                    batch_size : 1..MaxBatch,
                    max_records : 0..MaxRecordsLimit,
                    max_retries : RetryChoices]
    /\ src_flag = [t \in SourceTables |-> {}]
    /\ target_tables = {"tb"}
    /\ target = TargetRows
    /\ tx_open = FALSE
    /\ pc = "idle"
    /\ mode = "incremental"
    /\ i = 1
    /\ rows = <<>>
    /\ total = 0
    /\ table_results = <<>>
    /\ overall_success = TRUE
    /\ result = NoResult
    /\ prev = NoResult
    /\ events = <<>>
    /\ ops = <<>>
    /\ run = 0
    /\ faults = 0
    /\ warnings = <<>>
    /\ call = NoCall

(***************************************************************************)
(* PostgresClient::fetch_rows (postgres.rs:86-141).                        *)
(***************************************************************************)
\* The rows of seq at the positions in S, in the order of seq.
Pick(seq, S) ==
    LET F[n \in 0..Len(seq)] ==
            IF n = 0 THEN <<>>
            ELSE IF n \in S THEN Append(F[n - 1], seq[n]) ELSE F[n - 1]
    IN  F[Len(seq)]

\* The WHERE clause: the conditions NOT sync_flag_column (unless full_sync)
\* and the filter, joined by " AND " as texts (postgres.rs:92-106).  The
\* filter is not put in parentheses, and AND binds tighter than OR: the flag
\* condition goes with the first disjunct of the filter only.
\* (Selected_AnyFlag: the sync flag is not looked at.)
Selected_AnyFlag(mapping, full, r) == FilterHolds(mapping, r)
Selected(mapping, full_sync, r) ==
    LET unsynced == full_sync \/ r \notin src_flag[mapping.source_table]
    IN  IF mapping.filter = None THEN unsynced
        ELSE LET ds == Disjuncts(mapping.filter[1])
             IN  \/ unsynced /\ Holds(ds[1], r)
                 \/ \E k \in 2..Len(ds) : Holds(ds[k], r)

\* The possible results of the query; limit = 0 stands for None.  SourceRows
\* lists a table by (k1, k2), so with ORDER BY k1, k2 a LIMIT keeps the first
\* `limit` selected rows; without an order_by it keeps any `limit` of them.
\* simple_row_to_json drops the sync flag column: rows carry k1 and k2 only.
fetch_rows(mapping, full_sync, limit) ==
    LET all == SelectSeq(SourceRows[mapping.source_table],
                         LAMBDA r : Selected(mapping, full_sync, r))
        n == Min(limit, Len(all))
    IN  IF limit = 0
        THEN {all}
        ELSE IF mapping.order_by # None
        THEN {SubSeq(all, 1, n)}
        ELSE {Pick(all, S) : S \in {T \in SUBSET (1..Len(all)) :
                                      Cardinality(T) = n}}

(***************************************************************************)
(* PostgresClient::mark_synced (postgres.rs:145-169).                      *)
(***************************************************************************)
\* The ids built at sync.rs:376-384: a string is taken as it is, Null is
\* rendered as null, and a row without the column gives no id.
CheckpointIds(mapping, rs) ==
    LET pk_col == mapping.primary_key[1]
    IN  {IF rs[n][pk_col] = NULL THEN "null" ELSE rs[n][pk_col] :
            n \in {k \in 1..Len(rs) : pk_col \in DOMAIN rs[k]}}

\* The rows the UPDATE ... WHERE pk_col::text = ANY($1) matches: the text of
\* a NULL is NULL and equals no id.
\* (MarkedRows_NullAsText: a NULL is compared as the text null.)
MarkedRows_NullAsText(mapping, ids) ==
    LET pk_col == mapping.primary_key[1]
    IN  {r \in RowsOf(mapping.source_table) :
            /\ pk_col \in DOMAIN r
            /\ (IF r[pk_col] = NULL THEN "null" ELSE r[pk_col]) \in ids}
MarkedRows(mapping, ids) ==
    LET pk_col == mapping.primary_key[1]
    IN  {r \in RowsOf(mapping.source_table) :
            pk_col \in DOMAIN r /\ r[pk_col] # NULL /\ r[pk_col] \in ids}

\* mark_synced(mapping, ids) on a source with the sync flags `flags`: the
\* flags it leaves, the count it returns and the number of statements it
\* sends.  With no id it returns Ok(0) at once.
mark_synced(flags, mapping, ids) ==
    IF ids = {}
    THEN [flags |-> flags, ret |-> 0, statements |-> 0]
    ELSE [flags |-> [flags EXCEPT ![mapping.source_table] =
                        @ \cup MarkedRows(mapping, ids)],
          ret |-> Cardinality(MarkedRows(mapping, ids)),
          statements |-> 1]

\* unsynced_count (postgres.rs:213-216): count_rows with the one condition
\* NOT sync_flag_column, that is SELECT COUNT(*) FROM t WHERE NOT flag.
unsynced_count(mapping) ==
    Cardinality({r \in RowsOf(mapping.source_table) :
                   r \notin src_flag[mapping.source_table]})

\* The ids mark_synced is called with in the model.
Ids == {"1", "2", "null", "7"}

(***************************************************************************)
(* MotherDuckClient::upsert_rows and batch_upsert (motherduck.rs:178-265). *)
(***************************************************************************)
\* The key of a row in a target table keyed by the mapping's primary_key.
KeyOf(mapping, r) ==
    [c \in Range(mapping.primary_key) \cap DOMAIN r |-> r[c]]

\* INSERT OR REPLACE INTO ... VALUES over rs, row after row.
\* (InsertOrReplace_Ignore: a row whose key is stored already is dropped.)
InsertOrReplace_Ignore(mapping, stored, rs) ==
    LET F[n \in 0..Len(rs)] ==
            IF n = 0 THEN stored
            ELSE IF \E r \in F[n - 1] : KeyOf(mapping, r) = KeyOf(mapping, rs[n])
                 THEN F[n - 1]
                 ELSE F[n - 1] \cup {rs[n]}
    IN  F[Len(rs)]
InsertOrReplace(mapping, stored, rs) ==
    LET F[n \in 0..Len(rs)] ==
            IF n = 0 THEN stored
            ELSE {r \in F[n - 1] : KeyOf(mapping, r) # KeyOf(mapping, rs[n])}
                 \cup {rs[n]}
    IN  F[Len(rs)]

\* The count upsert_rows returns for a statement that succeeded: rows.len()
\* (motherduck.rs:225).  (RowsWritten_One: one, whatever the batch.)
RowsWritten_One(batch) == 1
RowsWritten(batch) == Len(batch)

\* ROLLBACK after a failed statement (motherduck.rs:256-259): what the open
\* transaction wrote is discarded and the table is as it was stored.
\* (Rollback_Keeps: the rows of the transaction stay.)
Rollback_Keeps(stored, pending) == stored \cup Range(pending)
Rollback(stored, pending) == stored

\* rows.chunks(batch_size): the chunk that follows the `total` rows written.
\* (Chunk_Rest: all the rows that remain, whatever the batch size.)
Chunk_Rest == SubSeq(rows, total + 1, Len(rows))
Chunk == SubSeq(rows, total + 1, Min(total + config.batch_size, Len(rows)))

\* The for loop over rows.chunks(batch_size) (motherduck.rs:243): after
\* `written` rows another chunk follows while rows remain.
\* (MoreChunks_Never: batch_upsert returns after its first chunk.)
MoreChunks_Never(written) == FALSE
MoreChunks(written) == written < Len(rows)

\* The rows of one INSERT statement (sync.rs:356-361): with transactions
\* batch_upsert writes chunk after chunk, without them upsert_rows gets all
\* the rows at once.  (Batch_Chunked: a chunk in either mode.)
Batch_Chunked == Chunk
Batch == IF config.use_transactions THEN Chunk ELSE rows

(***************************************************************************)
(* SyncClient::sync (sync.rs:184-281).                                     *)
(***************************************************************************)
\* The mapping the for loop is at: the mappings are taken in the order of
\* config.tables (sync.rs:202).
\* (Mapping_i_Reversed: the list is walked from its end.)
Mapping_i_Reversed == config.tables[Len(config.tables) + 1 - i]
Mapping_i == config.tables[i]
full_sync == mode = "full"

\* An error of a store: the environment may raise MaxFaults of them.
MayFail == faults < MaxFaults

\* The number of times sync_table issues the fetch of a table: fetch_rows is
\* called once and its error returned with `?` (sync.rs:338); config.retry is
\* read nowhere in sync.rs and create_backoff (sync.rs:428-435) has no caller.
\* (Attempts_Retry: a failed call is repeated max_retries times.)
Attempts_Retry(max_retries) == 1 + max_retries
Attempts(max_retries) == 1

\* report_progress (sync.rs:406-410) with a callback installed: the callback
\* receives the progress value; the log also keeps the index of the mapping
\* sync_table is running for.
report_progress(log, progress) == Append(log, [m |-> i, progress |-> progress])

\* report_progress calls the callback with nothing around the call
\* (sync.rs:407-409): when the callback panics on the last value of log, the
\* panic unwinds through sync_table and out of sync().  No result is built
\* and the model follows the call no further.
CallbackPanics(log) ==
    /\ events' = log
    /\ pc' = "panicked"
    /\ UNCHANGED <<table_results, overall_success, i>>

\* The test at sync.rs:203.  (Skipped_Never: the test is missing.)
Skipped_Never(mapping) == FALSE
Skipped(mapping) == ~mapping.enabled

\* The test at sync.rs:367.  (ShouldMark_AnyMode: the mode is not looked at.)
ShouldMark_AnyMode(synced) == config.mark_synced /\ synced > 0
ShouldMark(synced) == config.mark_synced /\ ~full_sync /\ synced > 0

\* sync.rs:221-247 for Ok((synced, failed)): the result is inserted and the
\* loop moves to the next mapping.
TableOk(synced, failed) ==
    /\ table_results' = Insert(table_results, Mapping_i.source_table,
                               OkTableResult(i, synced, failed))
    /\ overall_success' = overall_success
    /\ i' = i + 1
    /\ pc' = "loop"

\* sync.rs:221-247 for Err(e).
TableErr(e) ==
    /\ table_results' = Insert(table_results, Mapping_i.source_table,
                               ErrTableResult(i, e))
    /\ overall_success' = FALSE
    /\ i' = i + 1
    /\ pc' = "loop"

\* The `?` after batch_upsert and upsert_rows (sync.rs:356-361): an error of
\* the write returns from sync_table before the checkpoint.
\* (WriteError_Swallowed: the error is dropped and sync_table goes on.)
WriteError_Swallowed(e) ==
    /\ pc' = "mark"
    /\ UNCHANGED <<table_results, overall_success, i>>
WriteError(e) == TableErr(e)

\* sync.rs:184-199: a call starts; with auto_create_tables, ensure_schema
\* and create_analytics_tables have succeeded.
StartSync(md) ==
    /\ pc \in {"idle", "returned"}
    /\ run < MaxRuns
    /\ run' = run + 1
    /\ mode' = md
    /\ prev' = result
    /\ result' = NoResult
    /\ table_results' = <<>>
    /\ overall_success' = TRUE
    /\ i' = 1
    /\ rows' = <<>>
    /\ total' = 0
    /\ events' = <<>>
    /\ ops' = IF config.auto_create_tables
              THEN <<Op("ensure_schema", 0, TRUE, <<>>, {})>>
              ELSE <<>>
    /\ warnings' = <<>>
    /\ pc' = "loop"
    /\ UNCHANGED <<call, config, src_flag, target_tables, target, tx_open, faults>>

\* sync.rs:192-196: ensure_schema or create_analytics_tables fails and the
\* `?` returns the error from sync().
StartSyncSchemaError(md) ==
    /\ pc \in {"idle", "returned"}
    /\ run < MaxRuns
    /\ config.auto_create_tables
    /\ MayFail
    /\ faults' = faults + 1
    /\ run' = run + 1
    /\ mode' = md
    /\ prev' = result
    /\ result' = ErrResult
    /\ table_results' = <<>>
    /\ overall_success' = TRUE
    /\ i' = 1
    /\ rows' = <<>>
    /\ total' = 0
    /\ events' = <<>>
    /\ ops' = <<Op("ensure_schema", 0, FALSE, <<>>, {})>>
    /\ warnings' = <<>>
    /\ pc' = "returned"
    /\ UNCHANGED <<call, config, src_flag, target_tables, target, tx_open>>

\* sync.rs:202-206: a disabled mapping is skipped.
SkipDisabled ==
    /\ pc = "loop"
    /\ i <= Len(config.tables)
    /\ Skipped(Mapping_i)
    /\ i' = i + 1
    /\ UNCHANGED <<call, warnings, config, src_flag, target_tables, target, tx_open, pc, mode,
                   rows, total, table_results, overall_success, result, prev,
                   events, ops, run, faults>>

\* MotherDuckClient::table_exists (motherduck.rs:283-299): the table is
\* listed in information_schema.tables.
\* (table_exists_Never: no table is ever found.)
table_exists_Never(t) == FALSE
table_exists(t) == t \in target_tables

\* PostgresClient::introspect_table (postgres.rs:172-210): the columns
\* information_schema.columns lists for the table, the sync flag among them;
\* none for a table that does not exist.
introspect_table(t) ==
    IF t \in SourceTables THEN <<"k1", "k2", "synced">> ELSE <<>>

\* sync.rs:211-216: ensure_target_table returned Ok, or auto_create_tables is
\* off; sync_table is next.
ReconcileOk ==
    /\ pc' = "fetch"
    /\ UNCHANGED <<warnings, table_results, overall_success, i>>

\* sync.rs:212-215: ensure_target_table returned an error of the given kind;
\* it is logged as a warning and dropped, and sync_table is next.
\* (ReconcileFailed_Fatal: the error fails the table.)
ReconcileFailed_Fatal(kind) ==
    /\ warnings' = Append(warnings, [m |-> i, kind |-> kind])
    /\ TableErr("Failed to create target table")
ReconcileFailed(kind) ==
    /\ warnings' = Append(warnings, [m |-> i, kind |-> kind])
    /\ pc' = "fetch"
    /\ UNCHANGED <<table_results, overall_success, i>>

\* sync.rs:208-218 with ensure_target_table (sync.rs:285-318).  With
\* auto_create_tables on: a target table that exists is left alone;
\* otherwise the source table is introspected and the target table created
\* from its columns, zero columns being an Error::config.  An error of
\* table_exists, introspect_table or create_table_from_schema is returned as
\* it is.  In ops an introspection carries the columns it returned.
EnsureTargetTable ==
    /\ pc = "loop"
    /\ i <= Len(config.tables)
    /\ ~Skipped(Mapping_i)
    /\ LET t == Mapping_i.target_table
           columns == introspect_table(Mapping_i.source_table)
           exists(ok) == Op("table_exists", i, ok, <<>>, {})
           introspect(ok) == Op("introspect_table", i, ok,
                                IF ok THEN columns ELSE <<>>, {})
           create(ok) == Op("create_table", i, ok, columns, {})
       IN  \/ /\ ~config.auto_create_tables
              /\ ReconcileOk
              /\ UNCHANGED <<target_tables, ops, faults>>
           \/ /\ config.auto_create_tables
              /\ table_exists(t)
              /\ ops' = Append(ops, exists(TRUE))
              /\ ReconcileOk
              /\ UNCHANGED <<target_tables, faults>>
           \/ /\ config.auto_create_tables
              /\ ~table_exists(t)
              /\ columns # <<>>
              /\ ops' = ops \o <<exists(TRUE), introspect(TRUE), create(TRUE)>>
              /\ target_tables' = target_tables \cup {t}
              /\ ReconcileOk
              /\ UNCHANGED faults
           \/ /\ config.auto_create_tables
              /\ ~table_exists(t)
              /\ columns = <<>>
              /\ ops' = ops \o <<exists(TRUE), introspect(TRUE)>>
              /\ ReconcileFailed("Config")
              /\ UNCHANGED <<target_tables, faults>>
           \/ /\ config.auto_create_tables
              /\ MayFail
              /\ faults' = faults + 1
              /\ \/ /\ ops' = Append(ops, exists(FALSE))
                    /\ ReconcileFailed("MotherDuckQuery")
                 \/ /\ ~table_exists(t)
                    /\ ops' = ops \o <<exists(TRUE), introspect(FALSE)>>
                    /\ ReconcileFailed("PostgresQuery")
                 \/ /\ ~table_exists(t)
                    /\ columns # <<>>
                    /\ ops' = ops \o <<exists(TRUE), introspect(TRUE), create(FALSE)>>
                    /\ ReconcileFailed("MotherDuckQuery")
              /\ UNCHANGED target_tables
    /\ UNCHANGED <<call, config, src_flag, target, tx_open, mode, rows, total,
                   result, prev, events, run>>

\* sync_table, sync.rs:322-354: Fetching is reported and the rows are
\* fetched; no row ends the table with Ok((0, 0)), an error with Err, and
\* otherwise Inserting is reported and the write starts.  The query fails
\* when the environment says so or the source table does not exist.  A
\* callback that panics ends the call at the event it was handed.
FetchRows ==
    /\ pc = "fetch"
    /\ LET limit == IF config.max_records > 0 THEN config.max_records ELSE 0
           ev == report_progress(events,
                     SyncProgress(Mapping_i, "Fetching", 0, None, 0))
       IN  \/ /\ CallbackPanics(ev)
              /\ UNCHANGED <<ops, rows, total, faults>>
           \/ /\ MayFail \/ Mapping_i.source_table \notin SourceTables
              /\ faults' = IF Mapping_i.source_table \notin SourceTables
                            THEN faults ELSE faults + 1
              /\ ops' = Append(ops, Op("fetch_rows", i, FALSE, <<>>, {}))
              /\ IF Cardinality(OpsOf(i, {"fetch_rows"})) + 1
                        < Attempts(config.max_retries)
                 THEN /\ events' = events
                      /\ pc' = "fetch"
                      /\ UNCHANGED <<table_results, overall_success, i>>
                 ELSE /\ events' = ev
                      /\ TableErr("Fetch failed")
              /\ UNCHANGED <<rows, total>>
           \/ /\ Mapping_i.source_table \in SourceTables
              /\ \E rs \in fetch_rows(Mapping_i, full_sync, limit) :
                /\ ops' = Append(ops, Op("fetch_rows", i, TRUE, rs, {}))
                /\ rows' = rs
                /\ total' = 0
                /\ UNCHANGED faults
                /\ IF Len(rs) = 0
                   THEN /\ events' = ev
                        /\ TableOk(0, 0)
                   ELSE LET inserting == report_progress(ev,
                               SyncProgress(Mapping_i, "Inserting", 0,
                                            Some(Len(rs)), 25))
                        IN  \/ /\ events' = inserting
                               /\ pc' = IF config.use_transactions
                                        THEN "begin" ELSE "insert"
                               /\ UNCHANGED <<table_results, overall_success, i>>
                            \/ CallbackPanics(inserting)
    /\ UNCHANGED <<call, warnings, config, src_flag, target_tables, target, tx_open, mode,
                   result, prev, run>>

\* batch_upsert, motherduck.rs:243-247: BEGIN TRANSACTION for the next
\* chunk.  The engine refuses a BEGIN inside an open transaction.
BeginTransaction ==
    /\ pc = "begin"
    /\ \/ /\ ~tx_open
          /\ tx_open' = TRUE
          /\ ops' = Append(ops, Op("begin", i, TRUE, <<>>, {}))
          /\ pc' = "insert"
          /\ UNCHANGED <<faults, table_results, overall_success, i>>
       \/ /\ tx_open \/ MayFail
          /\ faults' = IF tx_open THEN faults ELSE faults + 1
          /\ ops' = Append(ops, Op("begin", i, FALSE, <<>>, {}))
          /\ WriteError("Begin transaction failed")
          /\ UNCHANGED tx_open
    /\ UNCHANGED <<call, warnings, config, src_flag, target_tables, target, mode, rows, total,
                   result, prev, events, run>>

\* upsert_rows, motherduck.rs:178-226: one INSERT OR REPLACE statement over
\* the chunk (inside batch_upsert, motherduck.rs:249-260) or over all the
\* rows (sync.rs:361).  The statement fails when the environment says so or
\* the target table does not exist.  In a transaction the rows wait for the
\* COMMIT and a failure is followed by a ROLLBACK; outside one the statement
\* commits by itself.
UpsertRows ==
    /\ pc = "insert"
    /\ LET batch == Batch
           t == Mapping_i.target_table
       IN  \/ /\ t \in target_tables
              /\ ops' = Append(ops, Op("upsert_rows", i, TRUE, batch, {}))
              /\ IF config.use_transactions
                 THEN /\ pc' = "commit"
                      /\ UNCHANGED <<target, total>>
                 ELSE /\ target' = [target EXCEPT
                                      ![t] = InsertOrReplace(Mapping_i, @, batch)]
                      /\ total' = RowsWritten(batch)
                      /\ pc' = "mark"
              /\ UNCHANGED <<faults, tx_open, table_results, overall_success, i>>
           \/ /\ t \notin target_tables \/ MayFail
              /\ faults' = IF t \notin target_tables THEN faults ELSE faults + 1
              /\ ops' = IF config.use_transactions
                        THEN ops \o <<Op("upsert_rows", i, FALSE, batch, {}),
                                      Op("rollback", i, TRUE, <<>>, {})>>
                        ELSE Append(ops, Op("upsert_rows", i, FALSE, batch, {}))
              /\ tx_open' = FALSE
              /\ target' = IF config.use_transactions
                           THEN [target EXCEPT ![t] = Rollback(@, batch)]
                           ELSE target
              /\ WriteError("Bulk insert failed")
              /\ UNCHANGED total
    /\ UNCHANGED <<call, warnings, config, src_flag, target_tables, mode, rows, result, prev,
                   events, run>>

\* batch_upsert, motherduck.rs:250-255: COMMIT of the chunk.  When the COMMIT
\* fails the `?` returns at once: the rows are not committed, no ROLLBACK is
\* sent, and it is the engine's choice whether the transaction is still open.
Commit ==
    /\ pc = "commit"
    /\ LET t == Mapping_i.target_table
       IN  \/ /\ ops' = Append(ops, Op("commit", i, TRUE, Chunk, {}))
              /\ target' = [target EXCEPT
                              ![t] = InsertOrReplace(Mapping_i, @, Chunk)]
              /\ total' = total + RowsWritten(Chunk)
              /\ pc' = IF MoreChunks(total') THEN "begin" ELSE "mark"
              /\ tx_open' = FALSE
              /\ UNCHANGED <<faults, table_results, overall_success, i>>
           \/ /\ MayFail
              /\ faults' = faults + 1
              /\ ops' = Append(ops, Op("commit", i, FALSE, Chunk, {}))
              /\ WriteError("Commit failed")
              /\ tx_open' \in BOOLEAN
              /\ UNCHANGED <<target, total>>
    /\ UNCHANGED <<call, warnings, config, src_flag, target_tables, mode, rows, result, prev,
                   events, run>>

\* sync_table, sync.rs:364-403: the checkpoint.  With mark_synced on, an
\* incremental run and synced > 0, Marking is reported and mark_synced is
\* called with the ids of the fetched rows; it issues the UPDATE unless ids
\* is empty (in ops the call is mark_synced and the statement update).  Then
\* Completed is reported and the table ends with
\* Ok((synced, failed)).  A callback that panics ends the call at the event.
MarkSynced ==
    /\ pc = "mark"
    /\ LET synced == total
           failed == Len(rows) - synced
           ids == CheckpointIds(Mapping_i, rows)
           changed == MarkedRows(Mapping_i, ids) \ src_flag[Mapping_i.source_table]
           marking == report_progress(events,
                          SyncProgress(Mapping_i, "Marking", synced,
                                       Some(Len(rows)), 75))
           completed(log) == report_progress(log,
                          SyncProgress(Mapping_i, "Completed", synced,
                                       Some(Len(rows)), 100))
       IN  IF ShouldMark(synced)
           THEN \/ /\ CallbackPanics(marking)
                   /\ UNCHANGED <<src_flag, faults, ops>>
                \/ /\ ids = {}
                   /\ ops' = Append(ops, Op("mark_synced", i, TRUE, rows, {}))
                   /\ events' = completed(marking)
                   /\ TableOk(synced, failed)
                   /\ UNCHANGED <<src_flag, faults>>
                \/ /\ ids # {}
                   /\ ops' = ops \o <<Op("mark_synced", i, TRUE, rows, {}),
                                     Op("update", i, TRUE, rows, changed)>>
                   /\ src_flag' = [src_flag EXCEPT ![Mapping_i.source_table] =
                                      @ \cup MarkedRows(Mapping_i, ids)]
                   /\ \/ /\ events' = completed(marking)
                         /\ TableOk(synced, failed)
                      \/ CallbackPanics(completed(marking))
                   /\ UNCHANGED faults
                \/ /\ ids # {}
                   /\ MayFail
                   /\ faults' = faults + 1
                   /\ ops' = ops \o <<Op("mark_synced", i, FALSE, rows, {}),
                                     Op("update", i, FALSE, rows, {})>>
                   /\ events' = marking
                   /\ TableErr("Mark synced failed")
                   /\ UNCHANGED src_flag
           ELSE /\ \/ /\ events' = completed(events)
                      /\ TableOk(synced, failed)
                   \/ CallbackPanics(completed(events))
                /\ UNCHANGED <<src_flag, faults, ops>>
    /\ UNCHANGED <<call, warnings, config, target_tables, target, tx_open, mode, rows, total,
                   result, prev, run>>

\* sync.rs:249-280: every mapping was visited; the SyncResult is built and
\* returned.
Finish ==
    /\ pc = "loop"
    /\ i > Len(config.tables)
    /\ result' = [kind |-> "ok",
                  success |-> overall_success,
                  mode |-> mode,
                  tables |-> table_results,
                  error |-> IF overall_success THEN None
                            ELSE Some("Some tables failed to sync")]
    /\ pc' = "returned"
    /\ UNCHANGED <<call, warnings, config, src_flag, target_tables, target, tx_open, mode, i,
                   rows, total, table_results, overall_success, prev, events,
                   ops, run, faults>>

Next ==
    \/ \E md \in {"incremental", "full"} : StartSync(md)
    \/ \E md \in {"incremental", "full"} : StartSyncSchemaError(md)
    \/ SkipDisabled
    \/ EnsureTargetTable
    \/ FetchRows
    \/ BeginTransaction
    \/ UpsertRows
    \/ Commit
    \/ MarkSynced
    \/ Finish

Spec == Init /\ [][Next]_vars

(***************************************************************************)
(* json_to_sql_literal (motherduck.rs:333-350).  A string is a sequence of *)
(* characters; a JsonValue is a record tagged by its variant.              *)
(***************************************************************************)
Chars == {"a", "'", "\"", "\\"}

RECURSIVE Words(_)
Words(n) ==
    IF n = 0 THEN {<<>>}
    ELSE Words(n - 1) \cup {Append(w, c) : w \in Words(n - 1), c \in Chars}

RECURSIVE Lists(_)
Lists(n) ==
    IF n = 0 THEN {<<>>}
    ELSE Lists(n - 1) \cup {Append(l, w) : l \in Lists(n - 1), w \in Words(1)}

\* serde_json::Value: Null, Bool, Number (by its text), String, Array of
\* strings, and Object of one member "a".
JsonValues ==
    {[type |-> "null"]}
    \cup {[type |-> "bool", b |-> b] : b \in BOOLEAN}
    \cup {[type |-> "number", text |-> t] : t \in {<<"0">>, <<"4", "2">>, <<"-", "1", ".", "5">>}}
    \cup {[type |-> "string", s |-> w] : w \in Words(MaxLen)}
    \cup {[type |-> "array", items |-> l] : l \in Lists(MaxItems)}
    \cup {[type |-> "object", member |-> w] : w \in Words(1)}

\* s.replace('\'', "''"): every single quote is doubled.
\* (Replace_Nothing: the string is left as it is.)
Replace_Nothing(s) == s
RECURSIVE Replace(_)
Replace(s) ==
    IF s = <<>> THEN <<>>
    ELSE (IF Head(s) = "'" THEN <<"'", "'">> ELSE <<Head(s)>>) \o Replace(Tail(s))

\* serde_json's text of a string: in double quotes, with \" and \\ escaped.
RECURSIVE JsonEscape(_)
JsonEscape(s) ==
    IF s = <<>> THEN <<>>
    ELSE (IF Head(s) \in {"\"", "\\"} THEN <<"\\", Head(s)>> ELSE <<Head(s)>>)
         \o JsonEscape(Tail(s))
JsonString(s) == <<"\"">> \o JsonEscape(s) \o <<"\"">>

RECURSIVE JoinItems(_)
JoinItems(l) ==
    IF l = <<>> THEN <<>>
    ELSE IF Len(l) = 1 THEN JsonString(l[1])
    ELSE JsonString(l[1]) \o <<",">> \o JoinItems(Tail(l))

\* Value::to_string of an Array or Object.
to_string(v) ==
    IF v.type = "array" THEN <<"[">> \o JoinItems(v.items) \o <<"]">>
    ELSE <<"{">> \o JsonString(<<"a">>) \o <<":">> \o JsonString(v.member) \o <<"}">>

json_to_sql_literal(v) ==
    CASE v.type = "null" -> <<"N", "U", "L", "L">>
      [] v.type = "bool" -> IF v.b THEN <<"T", "R", "U", "E">>
                            ELSE <<"F", "A", "L", "S", "E">>
      [] v.type = "number" -> v.text
      [] v.type = "string" -> <<"'">> \o Replace(v.s) \o <<"'">>
      [] OTHER -> <<"'">> \o Replace(to_string(v)) \o <<"'">>

\* What the target engine reads from position 2 of a quoted literal: two
\* quotes in a row are one quote of the string, one quote alone ends the
\* literal.  The result is the string and the position of the closing quote
\* (0 when the literal is not closed).
RECURSIVE ReadLiteral(_, _, _)
ReadLiteral(lit, pos, acc) ==
    IF pos > Len(lit) THEN [body |-> acc, end |-> 0]
    ELSE IF lit[pos] # "'" THEN ReadLiteral(lit, pos + 1, Append(acc, lit[pos]))
    ELSE IF pos < Len(lit) /\ lit[pos + 1] = "'"
         THEN ReadLiteral(lit, pos + 2, Append(acc, "'"))
         ELSE [body |-> acc, end |-> pos]

(***************************************************************************)
(* Calls of the functions of the clients, one call in a behaviour, on a    *)
(* source in which any rows may be marked as synced.                       *)
(***************************************************************************)
Parked ==
    /\ config = [tables |-> <<>>, mark_synced |-> TRUE, use_transactions |-> TRUE,
                 auto_create_tables |-> FALSE, batch_size |-> 1, max_records |-> 0,
                 max_retries |-> 3]
    /\ target_tables = {"tb"}
    /\ target = TargetRows
    /\ tx_open = FALSE
    /\ pc = "calls"
    /\ mode = "incremental"
    /\ i = 1
    /\ rows = <<>>
    /\ total = 0
    /\ table_results = <<>>
    /\ overall_success = TRUE
    /\ result = NoResult
    /\ prev = NoResult
    /\ events = <<>>
    /\ ops = <<>>
    /\ run = 0
    /\ faults = 0
    /\ warnings = <<>>

InitCalls ==
    /\ Parked
    /\ src_flag \in [a : SUBSET RowsOf("a"), b : SUBSET RowsOf("b")]
    /\ call = NoCall

parked == <<config, target_tables, target, tx_open, pc, mode, i, rows, total,
            table_results, overall_success, result, prev, events, ops, run,
            faults, warnings>>

\* upsert_rows renders a value of a row (motherduck.rs:203).
LiteralCall ==
    /\ call = NoCall
    /\ \E v \in JsonValues :
           call' = [fn |-> "json_to_sql_literal", value |-> v,
                    ret |-> json_to_sql_literal(v)]
    /\ UNCHANGED <<parked, src_flag>>

\* fetch_rows(mapping, full_sync, limit) on the source as it is.
FetchRowsCall ==
    /\ call = NoCall
    /\ \E mapping \in CallMappings, full \in BOOLEAN, limit \in 0..MaxRecordsLimit :
         \E rs \in fetch_rows(mapping, full, limit) :
           call' = [fn |-> "fetch_rows", mapping |-> mapping, full_sync |-> full,
                    limit |-> limit, ret |-> rs]
    /\ UNCHANGED <<parked, src_flag>>

\* mark_synced(mapping, ids) on the source as it is.
MarkSyncedCall ==
    /\ call = NoCall
    /\ \E mapping \in CallMappings, ids \in SUBSET Ids :
         LET out == mark_synced(src_flag, mapping, ids)
         IN  /\ src_flag' = out.flags
             /\ call' = [fn |-> "mark_synced", mapping |-> mapping, ids |-> ids,
                         before |-> src_flag, ret |-> out.ret,
                         statements |-> out.statements]
    /\ UNCHANGED parked

\* unsynced_count(mapping) on the source as it is.
UnsyncedCountCall ==
    /\ call = NoCall
    /\ \E mapping \in CallMappings :
           call' = [fn |-> "unsynced_count", mapping |-> mapping,
                    ret |-> unsynced_count(mapping)]
    /\ UNCHANGED <<parked, src_flag>>

(***************************************************************************)
(* ColumnType::from_postgres and ColumnType::to_duckdb (schema.rs:225-275). *)
(* A type name is a sequence of characters.                                *)
(***************************************************************************)
LowerCase == <<"a", "b", "c", "d", "e", "f", "g", "h", "i", "j", "k", "l",
               "m", "n", "o", "p", "q", "r", "s", "t", "u", "v", "w", "x",
               "y", "z">>
UpperCase == <<"A", "B", "C", "D", "E", "F", "G", "H", "I", "J", "K", "L",
               "M", "N", "O", "P", "Q", "R", "S", "T", "U", "V", "W", "X",
               "Y", "Z">>

\* str::to_lowercase, and the same for upper case (used to build inputs).
to_lowercase(s) ==
    [k \in 1..Len(s) |->
        IF \E n \in 1..26 : UpperCase[n] = s[k]
        THEN LowerCase[CHOOSE n \in 1..26 : UpperCase[n] = s[k]]
        ELSE s[k]]
to_uppercase(s) ==
    [k \in 1..Len(s) |->
        IF \E n \in 1..26 : LowerCase[n] = s[k]
        THEN UpperCase[CHOOSE n \in 1..26 : LowerCase[n] = s[k]]
        ELSE s[k]]

\* str::starts_with.
starts_with(s, prefix) ==
    Len(s) >= Len(prefix) /\ SubSeq(s, 1, Len(prefix)) = prefix

\* The type names of the model, in lower case; hstore is a type the mapping
\* does not know.
TypeNames ==
    {<<"b", "o", "o", "l">>,
     <<"b", "o", "o", "l", "e", "a", "n">>,
     <<"i", "n", "t", "2">>,
     <<"i", "n", "t", "e", "g", "e", "r">>,
     <<"i", "n", "t", "8">>,
     <<"f", "l", "o", "a", "t", "4">>,
     <<"d", "o", "u", "b", "l", "e", " ", "p", "r", "e", "c", "i", "s",
       "i", "o", "n">>,
     <<"d", "a", "t", "e">>,
     <<"t", "i", "m", "e">>,
     <<"t", "i", "m", "e", "s", "t", "a", "m", "p">>,
     <<"t", "i", "m", "e", "s", "t", "a", "m", "p", " ", "w", "i", "t",
       "h", " ", "t", "i", "m", "e", " ", "z", "o", "n", "e">>,
     <<"t", "i", "m", "e", "s", "t", "a", "m", "p", "t", "z">>,
     <<"u", "u", "i", "d">>,
     <<"j", "s", "o", "n", "b">>,
     <<"b", "y", "t", "e", "a">>,
     <<"t", "e", "x", "t">>,
     <<"c", "h", "a", "r", "a", "c", "t", "e", "r", " ", "v", "a", "r",
       "y", "i", "n", "g", "(", "2", "5", "5", ")">>,
     <<"v", "a", "r", "c", "h", "a", "r">>,
     <<"n", "u", "m", "e", "r", "i", "c">>,
     <<"n", "u", "m", "e", "r", "i", "c", "(", "1", "0", ",", "2", ")">>,
     <<"d", "e", "c", "i", "m", "a", "l">>,
     <<"h", "s", "t", "o", "r", "e">>}

\* The name in one of three spellings: lower case, upper case, and upper
\* case for the first character only.
Spelling(name, style) ==
    CASE style = "lower" -> name
      [] style = "upper" -> to_uppercase(name)
      [] OTHER -> to_uppercase(SubSeq(name, 1, 1)) \o SubSeq(name, 2, Len(name))

\* ColumnType::from_postgres (schema.rs:249-275): the match over the name
\* in lower case.
from_postgres_match(normalized) ==
    CASE \/ normalized = <<"b", "o", "o", "l", "e", "a", "n">>
         \/ normalized = <<"b", "o", "o", "l">>
           -> [type |-> "Boolean"]
      [] \/ normalized = <<"s", "m", "a", "l", "l", "i", "n", "t">>
         \/ normalized = <<"i", "n", "t", "2">>
           -> [type |-> "SmallInt"]
      [] \/ normalized = <<"i", "n", "t", "e", "g", "e", "r">>
         \/ normalized = <<"i", "n", "t">>
         \/ normalized = <<"i", "n", "t", "4">>
           -> [type |-> "Integer"]
      [] \/ normalized = <<"b", "i", "g", "i", "n", "t">>
         \/ normalized = <<"i", "n", "t", "8">>
           -> [type |-> "BigInt"]
      [] \/ normalized = <<"r", "e", "a", "l">>
         \/ normalized = <<"f", "l", "o", "a", "t", "4">>
           -> [type |-> "Real"]
      [] \/ normalized = <<"d", "o", "u", "b", "l", "e", " ", "p", "r", "e", "c", "i", "s", "i", "o", "n">>
         \/ normalized = <<"f", "l", "o", "a", "t", "8">>
           -> [type |-> "Double"]
      [] normalized = <<"d", "a", "t", "e">>
           -> [type |-> "Date"]
      [] \/ normalized = <<"t", "i", "m", "e">>
         \/ normalized = <<"t", "i", "m", "e", " ", "w", "i", "t", "h", "o", "u", "t", " ", "t", "i", "m", "e", " ", "z", "o", "n", "e">>
           -> [type |-> "Time"]
      [] \/ normalized = <<"t", "i", "m", "e", "s", "t", "a", "m", "p">>
         \/ normalized = <<"t", "i", "m", "e", "s", "t", "a", "m", "p", " ", "w", "i", "t", "h", "o", "u", "t", " ", "t", "i", "m", "e", " ", "z", "o", "n", "e">>
           -> [type |-> "Timestamp"]
      [] \/ normalized = <<"t", "i", "m", "e", "s", "t", "a", "m", "p", " ", "w", "i", "t", "h", " ", "t", "i", "m", "e", " ", "z", "o", "n", "e">>
         \/ normalized = <<"t", "i", "m", "e", "s", "t", "a", "m", "p", "t", "z">>
           -> [type |-> "TimestampTz"]
      [] normalized = <<"u", "u", "i", "d">>
           -> [type |-> "Uuid"]
      [] \/ normalized = <<"j", "s", "o", "n">>
         \/ normalized = <<"j", "s", "o", "n", "b">>
           -> [type |-> "Json"]
      [] normalized = <<"b", "y", "t", "e", "a">>
           -> [type |-> "Blob"]
      [] normalized = <<"t", "e", "x", "t">>
           -> [type |-> "Text"]
      [] \/ starts_with(normalized, <<"c", "h", "a", "r", "a", "c", "t", "e", "r", " ", "v", "a", "r", "y", "i", "n", "g">>)
         \/ starts_with(normalized, <<"v", "a", "r", "c", "h", "a", "r">>)
           -> [type |-> "Varchar", max_length |-> None]
      [] \/ starts_with(normalized, <<"n", "u", "m", "e", "r", "i", "c">>)
         \/ starts_with(normalized, <<"d", "e", "c", "i", "m", "a", "l">>)
           -> [type |-> "Decimal", precision |-> 38, scale |-> 9]
      [] OTHER -> [type |-> "Text"]

from_postgres(pg_type) == from_postgres_match(to_lowercase(pg_type))

\* ColumnType::to_duckdb (schema.rs:227-246).
to_duckdb(column_type) ==
    CASE column_type.type = "Boolean" -> "BOOLEAN"
      [] column_type.type = "SmallInt" -> "SMALLINT"
      [] column_type.type = "Integer" -> "INTEGER"
      [] column_type.type = "BigInt" -> "BIGINT"
      [] column_type.type = "Real" -> "REAL"
      [] column_type.type = "Double" -> "DOUBLE"
      [] column_type.type = "Decimal" -> "DECIMAL"
      [] column_type.type = "Varchar" -> "VARCHAR"
      [] column_type.type = "Text" -> "VARCHAR"
      [] column_type.type = "Date" -> "DATE"
      [] column_type.type = "Time" -> "TIME"
      [] column_type.type = "Timestamp" -> "TIMESTAMP"
      [] column_type.type = "TimestampTz" -> "TIMESTAMPTZ"
      [] column_type.type = "Uuid" -> "VARCHAR"
      [] column_type.type = "Json" -> "JSON"
      [] column_type.type = "Blob" -> "BLOB"

\* A source type name is mapped to the type of the target column.
MapTypeCall ==
    /\ call = NoCall
    /\ \E name \in TypeNames, style \in {"lower", "upper", "capital"} :
           LET pg_type == Spelling(name, style)
           IN  call' = [fn |-> "map_type", name |-> name, pg_type |-> pg_type,
                        column_type |-> from_postgres(pg_type),
                        ret |-> to_duckdb(from_postgres(pg_type))]
    /\ UNCHANGED <<parked, src_flag>>

(***************************************************************************)
(* The ids of the checkpoint (sync.rs:376-384) over rows of any JsonValue. *)
(***************************************************************************)
\* Display of a serde_json::Value: the text of the value.
value_to_string(v) ==
    CASE v.type = "null" -> <<"n", "u", "l", "l">>
      [] v.type = "bool" -> IF v.b THEN <<"t", "r", "u", "e">>
                            ELSE <<"f", "a", "l", "s", "e">>
      [] v.type = "number" -> v.text
      [] v.type = "string" -> JsonString(v.s)
      [] OTHER -> to_string(v)

\* str::trim_matches(c): every c at the start and at the end is removed.
RECURSIVE trim_start_matches(_, _)
trim_start_matches(s, c) ==
    IF s # <<>> /\ Head(s) = c THEN trim_start_matches(Tail(s), c) ELSE s
RECURSIVE trim_end_matches(_, _)
trim_end_matches(s, c) ==
    IF s # <<>> /\ s[Len(s)] = c
    THEN trim_end_matches(SubSeq(s, 1, Len(s) - 1), c) ELSE s
trim_matches(s, c) == trim_end_matches(trim_start_matches(s, c), c)

\* The match at sync.rs:380-383: a String gives its content, any other
\* value its text without the double quotes around it.
\* (IdOf_TrimsStrings: the quotes around a String's content are removed too.)
IdOf_TrimsStrings(v) ==
    trim_matches(IF v.type = "string" THEN v.s ELSE value_to_string(v), "\"")
IdOf(v) ==
    IF v.type = "string" THEN v.s
    ELSE trim_matches(value_to_string(v), "\"")

\* rows.iter().filter_map(|r| r.get(pk_col)).map(..).collect(): the ids of
\* the rows that have the column, in the order of the rows.
checkpoint_ids(pk_col, rs) ==
    LET F[n \in 0..Len(rs)] ==
            IF n = 0 THEN <<>>
            ELSE IF pk_col \in DOMAIN rs[n]
                 THEN Append(F[n - 1], IdOf(rs[n][pk_col]))
                 ELSE F[n - 1]
    IN  F[Len(rs)]

\* The values of the key column in the rows of the model, and the rows: a row
\* has the key column k1 or it has not.
IdValues ==
    {v \in JsonValues :
        \/ v.type \in {"null", "bool", "number", "object"}
        \/ v.type = "string" /\ Len(v.s) < MaxLen
        \/ v.type = "array" /\ Len(v.items) = 1}
IdRows ==
    {[k1 |-> v, k2 |-> [type |-> "null"]] : v \in IdValues}
    \cup {[k2 |-> [type |-> "null"]]}

\* The ids are built for one or two fetched rows and the key column k1.
CheckpointIdsCall ==
    /\ call = NoCall
    /\ \E rs \in [1..1 -> IdRows] \cup [1..2 -> IdRows] :
           call' = [fn |-> "checkpoint_ids", pk_col |-> "k1", rows |-> rs,
                    ret |-> checkpoint_ids("k1", rs)]
    /\ UNCHANGED <<parked, src_flag>>

(***************************************************************************)
(* The statement of upsert_rows (motherduck.rs:187-214) over rows of any   *)
(* key sets.                                                               *)
(***************************************************************************)
\* The column names of the model in the order of String::cmp, the order of
\* their bytes: an upper-case letter comes before the lower-case ones.
SortedNames == <<"Z", "k1", "k2">>

\* columns.sort() over the keys in S.
sort(S) == SelectSeq(SortedNames, LAMBDA c : c \in S)

\* The rows handed to upsert_rows: any of the columns, each with a string or
\* a null.
WriteRows ==
    UNION {[S -> {"1", NULL}] : S \in SUBSET Range(SortedNames)}

\* rows[0].keys(), sorted (motherduck.rs:188-189).
\* (StatementColumns_AllRows: the keys of all the rows.)
StatementColumns_AllRows(rs) == sort(UNION {DOMAIN rs[n] : n \in 1..Len(rs)})
StatementColumns(rs) == sort(DOMAIN rs[1])

\* row.get(col).unwrap_or(&JsonValue::Null) (motherduck.rs:202).
ValueOf(row, col) == IF col \in DOMAIN row THEN row[col] ELSE NULL

\* The INSERT OR REPLACE statement upsert_rows builds: its column list and
\* one tuple of values for every row; None for no row, when upsert_rows
\* returns Ok(0) and sends nothing (motherduck.rs:183-185).
upsert_statement(rs) ==
    IF rs = <<>> THEN None
    ELSE LET columns == StatementColumns(rs)
         IN  Some([columns |-> columns,
                   values |-> [n \in 1..Len(rs) |->
                                 [k \in 1..Len(columns) |->
                                     ValueOf(rs[n], columns[k])]]])

\* upsert_rows is called with no row, one row or two rows.
UpsertStatementCall ==
    /\ call = NoCall
    /\ \E rs \in {<<>>} \cup [1..1 -> WriteRows] \cup [1..2 -> WriteRows] :
           call' = [fn |-> "upsert_rows", rows |-> rs,
                    statement |-> upsert_statement(rs),
                    ret |-> RowsWritten(rs)]
    /\ UNCHANGED <<parked, src_flag>>

(***************************************************************************)
(* Table::to_duckdb_ddl (schema.rs:75-102).  A text is the sequence of the *)
(* pieces it is formatted from.                                            *)
(***************************************************************************)
\* join(sep) over a list of texts.
RECURSIVE join(_, _)
join(texts, sep) ==
    IF texts = <<>> THEN <<>>
    ELSE IF Len(texts) = 1 THEN texts[1]
    ELSE texts[1] \o <<sep>> \o join(Tail(texts), sep)

\* Column::constraints_ddl (schema.rs:156-176): NOT NULL for a column that
\* is not nullable, UNIQUE, DEFAULT, joined by a space after a space.
\* (constraints_ddl_AllNotNull: NOT NULL whatever the column.)
constraints_ddl_AllNotNull(c) ==
    LET constraints ==
            <<<<"NOT NULL">>>>
            \o (IF c.unique THEN <<<<"UNIQUE">>>> ELSE <<>>)
            \o (IF c.default # None THEN <<<<"DEFAULT ", c.default[1]>>>> ELSE <<>>)
    IN  <<" ">> \o join(constraints, " ")
constraints_ddl(c) ==
    LET constraints ==
            (IF ~c.nullable THEN <<<<"NOT NULL">>>> ELSE <<>>)
            \o (IF c.unique THEN <<<<"UNIQUE">>>> ELSE <<>>)
            \o (IF c.default # None THEN <<<<"DEFAULT ", c.default[1]>>>> ELSE <<>>)
    IN  IF constraints = <<>> THEN <<>>
        ELSE <<" ">> \o join(constraints, " ")

\* One entry of col_defs (schema.rs:78-90).
col_def(c) ==
    <<"    ", c.name, " ", to_duckdb(c.column_type)>> \o constraints_ddl(c)

to_duckdb_ddl(table) ==
    <<"CREATE TABLE IF NOT EXISTS ", table.name, " (\n">>
    \o join([k \in 1..Len(table.columns) |-> col_def(table.columns[k])], ",\n")
    \o (IF table.primary_key # <<>>
        THEN <<",\n", "    PRIMARY KEY (">>
             \o join([k \in 1..Len(table.primary_key) |->
                        <<table.primary_key[k]>>], ", ")
             \o <<")">>
        ELSE <<>>)
    \o <<"\n)">>

\* The columns a table is built from (schema.rs:106-153): Column::new and
\* its setters, or IntrospectedColumn::to_column.
DdlColumns ==
    [name : {"k1", "k2"},
     column_type : {[type |-> "Integer"], [type |-> "TimestampTz"]},
     nullable : BOOLEAN, unique : BOOLEAN, default : {None, Some("0")}]

\* The tables: one or two columns, no, one or two primary-key columns.
DdlTables ==
    [name : {"ta"},
     columns : [1..1 -> DdlColumns] \cup [1..2 -> DdlColumns],
     primary_key : {<<>>} \cup [1..1 -> {"k1", "k2"}] \cup [1..2 -> {"k1", "k2"}]]

\* create_table (motherduck.rs:69-79) generates the DDL of a table.
DdlCall ==
    /\ call = NoCall
    /\ \E table \in DdlTables :
           call' = [fn |-> "to_duckdb_ddl", table |-> table,
                    ret |-> to_duckdb_ddl(table)]
    /\ UNCHANGED <<parked, src_flag>>

\* The variants of Error (error.rs:10-114).
ErrorKinds ==
    {"Config", "PostgresConnection", "PostgresQuery", "MotherDuckConnection",
     "MotherDuckQuery", "Schema", "Validation", "Serialization", "Sync",
     "RetryExhausted", "Cancelled", "Io"}

\* Error::is_retryable (error.rs:213-218).
\* (is_retryable_Queries: the query errors are retryable as well.)
is_retryable_Queries(e) ==
    e.kind \in {"PostgresConnection", "MotherDuckConnection", "Io",
                "PostgresQuery", "MotherDuckQuery"}
is_retryable(e) ==
    e.kind \in {"PostgresConnection", "MotherDuckConnection", "Io"}

\* Error::code (error.rs:221-236).
code(e) ==
    CASE e.kind = "Config" -> "CONFIG_ERROR"
      [] e.kind = "PostgresConnection" -> "PG_CONNECTION_ERROR"
      [] e.kind = "PostgresQuery" -> "PG_QUERY_ERROR"
      [] e.kind = "MotherDuckConnection" -> "MD_CONNECTION_ERROR"
      [] e.kind = "MotherDuckQuery" -> "MD_QUERY_ERROR"
      [] e.kind = "Schema" -> "SCHEMA_ERROR"
      [] e.kind = "Validation" -> "VALIDATION_ERROR"
      [] e.kind = "Serialization" -> "SERIALIZATION_ERROR"
      [] e.kind = "Sync" -> "SYNC_ERROR"
      [] e.kind = "RetryExhausted" -> "RETRY_EXHAUSTED"
      [] e.kind = "Cancelled" -> "CANCELLED"
      [] e.kind = "Io" -> "IO_ERROR"

\* is_retryable() is asked of an error of any kind.
IsRetryableCall ==
    /\ call = NoCall
    /\ \E kind \in ErrorKinds :
           LET e == [kind |-> kind]
           IN  call' = [fn |-> "is_retryable", error |-> e, code |-> code(e),
                        ret |-> is_retryable(e)]
    /\ UNCHANGED <<parked, src_flag>>

\* The three ways a TableMapping is constructed, and the enabled flag each
\* gives the mapping; `field` is the enabled value the caller specified, None
\* when there is none.
ConstructionPaths == {"TableConfig", "TableMapping", "TableMappingBuilder"}

\* #[serde(default = "default_true")] (config.rs:237, 592-594, 618): an
\* absent field is given the value of default_true().
default_true == TRUE
deserialize_enabled(field) == IF field = None THEN default_true ELSE field[1]

\* #[derive(Default)] on TableMappingBuilder (config.rs:257-268): the bool
\* field enabled starts as bool::default(), false; enabled(e) overwrites it
\* (config.rs:326-329) and build() copies it (config.rs:351).
TableMappingBuilder_default == [enabled |-> FALSE]
build(field) ==
    LET builder == IF field = None THEN TableMappingBuilder_default
                   ELSE [TableMappingBuilder_default EXCEPT !.enabled = field[1]]
    IN  builder.enabled

construct_enabled(path, field) ==
    CASE path = "TableConfig" -> deserialize_enabled(field)
      [] path = "TableMapping" -> deserialize_enabled(field)
      [] path = "TableMappingBuilder" -> build(field)

\* A TableMapping is constructed on one of the three paths.
ConstructMappingCall ==
    /\ call = NoCall
    /\ \E path \in ConstructionPaths, field \in {None, Some(TRUE), Some(FALSE)} :
           call' = [fn |-> "construct", path |-> path, field |-> field,
                    ret |-> [enabled |-> construct_enabled(path, field)]]
    /\ UNCHANGED <<parked, src_flag>>

NextCalls ==
    \/ LiteralCall
    \/ ConstructMappingCall
    \/ MapTypeCall
    \/ IsRetryableCall
    \/ CheckpointIdsCall
    \/ UpsertStatementCall
    \/ DdlCall
    \/ FetchRowsCall
    \/ MarkSyncedCall
    \/ UnsyncedCountCall

SpecCalls == InitCalls /\ [][NextCalls]_vars

(***************************************************************************)
(* Vocabulary of the properties.                                           *)
(***************************************************************************)
\* sync() has returned a SyncResult.
Returned == pc = "returned" /\ result.kind = "ok"

EnabledMappings == {n \in 1..Len(config.tables) : config.tables[n].enabled}

\* The mappings the loop of the running call is through with.
Visited == {n \in 1..Len(config.tables) : pc = "returned" \/ n < i}
Processed == Visited \cap EnabledMappings

\* The steps of sync_table whose error fails the table.
TableSteps == {"fetch_rows", "begin", "upsert_rows", "commit", "update"}
WriteSteps == {"begin", "upsert_rows", "rollback", "commit"}

\* sync_table returned Err for mapping n / returned Ok.
Errored(n) == \E k \in OpsOf(n, TableSteps) : ~ops[k].ok
Succeeded(n) == n \in Processed /\ ~Errored(n)

\* The rows fetch_rows returned for mapping n.
Fetched(n) == UNION {Range(ops[k].rows) : k \in {j \in OpsOf(n, {"fetch_rows"}) : ops[j].ok}}

\* The rows of mapping n the target has committed in this call: the chunks
\* whose COMMIT succeeded, or the rows of the one statement without
\* transactions.
Committed(n) ==
    UNION {Range(ops[k].rows) :
             k \in {j \in OpsOf(n, IF config.use_transactions
                                   THEN {"commit"} ELSE {"upsert_rows"}) : ops[j].ok}}

\* The phases the callback received while mapping n was synced.
PhasesOf(n) ==
    LET mine == SelectSeq(events, LAMBDA e : e.m = n)
    IN  [k \in 1..Len(mine) |-> mine[k].progress.phase]

\* SyncResult::total_records and all_tables_success (sync.rs:53-65).
RECURSIVE SumSynced(_, _)
SumSynced(tables, names) ==
    IF names = {} THEN 0
    ELSE LET t == CHOOSE x \in names : TRUE
         IN  tables[t].records_synced + SumSynced(tables, names \ {t})

total_records(r) == SumSynced(r.tables, DOMAIN r.tables)
all_tables_success(r) == \A t \in DOMAIN r.tables : r.tables[t].success

(***************************************************************************)
(* Properties of the orchestrator.                                         *)
(***************************************************************************)
\* C1 - failure isolation: when sync() returns and exactly one enabled
\* mapping had a failing fetch, write (BEGIN, INSERT or COMMIT) or checkpoint
\* step, the result of that mapping's table has success = false and an
\* error, the result of every other enabled mapping's table has
\* success = true, and SyncResult.success is false.
C1_FailureIsolation ==
    Returned =>
        \A n \in EnabledMappings :
            {k \in EnabledMappings : Errored(k)} = {n} =>
                /\ ~result.success
                /\ ~result.tables[config.tables[n].source_table].success
                /\ result.tables[config.tables[n].source_table].error # None
                /\ \A k \in EnabledMappings \ {n} :
                       result.tables[config.tables[k].source_table].success

\* C2 - checkpoint safety: in an incremental sync every source row whose
\* sync flag an UPDATE of the checkpoint turned from false to true was
\* fetched for that table and committed to the target in the same call.
C2_CheckpointSafety ==
    mode = "incremental" =>
        \A k \in 1..Len(ops) :
            ops[k].op = "update" =>
                ops[k].changed \subseteq (Fetched(ops[k].m) \cap Committed(ops[k].m))

\* C5 - when sync() returns a SyncResult, its tables map has as many
\* entries as the configuration has enabled mappings.
C5_OneResultPerMapping ==
    Returned => Cardinality(DOMAIN result.tables) = Cardinality(EnabledMappings)

\* C6 - SyncResult.success is the conjunction of the success flags of the
\* tables of the returned result: success = all_tables_success().
C6_SuccessIsConjunction ==
    Returned => (result.success <=> all_tables_success(result))

\* C9 - a table that completes without error was reported to the progress
\* callback as Connecting, Fetching, Inserting, Marking, Completed, each phase
\* once and in this order, Marking being left out exactly when the mode is
\* full, mark_synced is off or no row was written.
C9_PhaseOrder ==
    \A n \in Processed :
        Succeeded(n) =>
            PhasesOf(n) =
                IF mode = "incremental" /\ config.mark_synced /\ Committed(n) # {}
                THEN <<"Connecting", "Fetching", "Inserting", "Marking", "Completed">>
                ELSE <<"Connecting", "Fetching", "Inserting", "Completed">>

\* C10 - a table whose fetch, write or checkpoint step raised an error was
\* reported to the progress callback as Failed, and that is the last event
\* of the table.
C10_FailedIsReported ==
    \A n \in Processed :
        Errored(n) =>
            /\ PhasesOf(n) # <<>>
            /\ PhasesOf(n)[Len(PhasesOf(n))] = "Failed"

\* C3 as stated - idempotence for every configuration: when an incremental
\* sync returned with every table successful, the incremental sync that
\* follows it fetches no row and syncs no record.
C3_IdempotentAlways ==
    (/\ Returned /\ mode = "incremental"
     /\ prev.kind = "ok" /\ prev.mode = "incremental" /\ prev.success)
    => /\ total_records(result) = 0
       /\ \A k \in 1..Len(ops) : ops[k].op = "fetch_rows" => ops[k].rows = <<>>

\* The checkpoint of the mapping reaches every row the mapping selects: the
\* first primary-key column has a value in each of them.
CheckpointReaches(mapping) ==
    \A r \in RowsOf(mapping.source_table) :
        FilterHolds(mapping, r) =>
            /\ mapping.primary_key[1] \in DOMAIN r
            /\ r[mapping.primary_key[1]] # NULL

\* The sync flag condition of the WHERE clause covers the whole filter of the
\* mapping: the filter has no OR outside parentheses.
FlagGuardsFilter(mapping) ==
    mapping.filter = None \/ Len(Disjuncts(mapping.filter[1])) = 1

\* C3 - idempotence of incremental sync: with mark_synced on, max_records = 0,
\* a value under the first primary-key column of every selected row and no
\* filter with an OR outside parentheses, when an incremental sync returned
\* with every table successful, the incremental sync that follows it fetches
\* no row and syncs no record.
C3_Idempotent ==
    (/\ Returned /\ mode = "incremental"
     /\ prev.kind = "ok" /\ prev.mode = "incremental" /\ prev.success
     /\ config.mark_synced /\ config.max_records = 0
     /\ \A n \in EnabledMappings : CheckpointReaches(config.tables[n])
     /\ \A n \in EnabledMappings : FlagGuardsFilter(config.tables[n]))
    => /\ total_records(result) = 0
       /\ \A k \in 1..Len(ops) : ops[k].op = "fetch_rows" => ops[k].rows = <<>>

\* An incremental sync that wrote and checkpointed rows was followed by an
\* incremental sync that found nothing to do.
C3_Witness ==
    /\ Returned /\ mode = "incremental" /\ result.success
    /\ prev.kind = "ok" /\ prev.mode = "incremental" /\ prev.success
    /\ config.mark_synced /\ config.max_records = 0
    /\ \A n \in EnabledMappings : CheckpointReaches(config.tables[n])
    /\ \A n \in EnabledMappings : FlagGuardsFilter(config.tables[n])
    /\ total_records(prev) > 0
    /\ total_records(result) = 0
    /\ \E k \in 1..Len(ops) : ops[k].op = "fetch_rows" /\ ops[k].ok

\* mark_synced was called for mapping n / the write step of n raised an error.
MarkInvoked(n) == OpsOf(n, {"mark_synced"}) # {}
WriteFailed(n) == \E k \in OpsOf(n, {"begin", "upsert_rows", "commit"}) : ~ops[k].ok

\* C4 as stated - mark_synced is called for a table exactly when the mode is
\* incremental, mark_synced is on and at least one row of the table was
\* written to the target.
C4_MarkIffRowsWritten ==
    \A n \in Processed :
        MarkInvoked(n) <=>
            (mode = "incremental" /\ config.mark_synced /\ Committed(n) # {})

\* C4 - mark_synced is called for a table exactly when the mode is
\* incremental, mark_synced is on and the write step returned without error
\* having written at least one row; and no step of a full sync changes a
\* sync flag of the source.
C4_MarkIffWriteReturned ==
    /\ [](\A n \in Processed :
            MarkInvoked(n) <=>
                (/\ mode = "incremental" /\ config.mark_synced
                 /\ Committed(n) # {} /\ ~WriteFailed(n)))
    /\ [][mode' = "full" => src_flag' = src_flag]_vars

\* Both sides happen: an incremental sync called mark_synced for a table,
\* and changed sync flags.
C4_Witness ==
    /\ pc = "returned" /\ mode = "incremental"
    /\ \E n \in Processed : MarkInvoked(n) /\ Committed(n) # {}
    /\ \E t \in SourceTables : src_flag[t] # {}

\* C7 - a mapping with enabled = false is skipped: no reconcile, fetch, write
\* or checkpoint operation is issued for it, no progress is reported for it,
\* and no entry of the results map (or of the returned SyncResult.tables)
\* was built for it.
C7_DisabledSkipped ==
    /\ \A k \in 1..Len(ops) : ops[k].m = 0 \/ config.tables[ops[k].m].enabled
    /\ \A k \in 1..Len(events) : config.tables[events[k].m].enabled
    /\ \A t \in DOMAIN table_results :
           /\ table_results[t].mapping \in EnabledMappings
           /\ config.tables[table_results[t].mapping].source_table = t
    /\ Returned => \A t \in DOMAIN result.tables :
                       result.tables[t].mapping \in EnabledMappings

\* sync() returned after its loop passed a disabled mapping and synced an
\* enabled mapping that follows it.
C7_Witness ==
    /\ Returned
    /\ \E n \in 1..Len(config.tables) : \E k \in EnabledMappings :
           /\ ~config.tables[n].enabled
           /\ n < k
           /\ OpsOf(k, {"fetch_rows"}) # {}
           /\ config.tables[n].source_table \notin DOMAIN result.tables

\* fetch_rows returned no row for mapping n / no later mapping of the same
\* source table has replaced the result of n in the map.
ZeroFetch(n) == \E k \in OpsOf(n, {"fetch_rows"}) : ops[k].ok /\ ops[k].rows = <<>>
ResultStands(n) ==
    \A k \in Processed :
        config.tables[k].source_table = config.tables[n].source_table => k <= n

\* C8 - a mapping whose fetch returns zero rows issues no target write and
\* no source checkpoint, and the table result built for it is success = true
\* with records_synced = 0 and records_failed = 0: it is the entry of the
\* results map from the moment sync_table returns, for as long as the entry
\* is the one of this mapping.
C8_ZeroRows ==
    \A n \in Processed :
        ZeroFetch(n) =>
            /\ OpsOf(n, WriteSteps \cup {"mark_synced", "update"}) = {}
            /\ ResultStands(n) =>
                 LET r == table_results[config.tables[n].source_table]
                 IN  /\ r.mapping = n
                     /\ r.success
                     /\ r.records_synced = 0
                     /\ r.records_failed = 0
                     /\ r.error = None

\* A mapping whose fetch returned no row has its result in the map.
C8_Witness ==
    \E n \in Processed :
        /\ ZeroFetch(n)
        /\ ResultStands(n)
        /\ table_results[config.tables[n].source_table].success

\* C11 - a failure of the progress callback does not abort the sync: no call
\* of sync() is ended by its callback, with the phases and mappings that
\* remain unprocessed and no SyncResult returned.
C11_CallbackFailureContained == pc # "panicked"

\* The rows fetch_rows returned for mapping n, in the order it returned them,
\* and the chunks batch_upsert handed to upsert_rows for n, in order.
FetchedSeq(n) ==
    LET ks == {k \in OpsOf(n, {"fetch_rows"}) : ops[k].ok}
    IN  IF ks = {} THEN <<>> ELSE ops[CHOOSE k \in ks : TRUE].rows
WriteChunks(n) ==
    LET mine == SelectSeq(ops, LAMBDA o : o.m = n /\ o.op = "upsert_rows")
    IN  [k \in 1..Len(mine) |-> mine[k].rows]

\* C12 - chunking: with transactions, for N >= 1 fetched rows and batch size
\* b the k-th chunk batch_upsert writes is rows (k-1)*b+1 .. min(k*b, N) of
\* the fetched rows (so every chunk has at most b rows, every chunk but the
\* last has b, and the chunks in order concatenate to the rows), and a
\* batch_upsert that returns without error has written ceil(N/b) chunks.
C12_Chunking ==
    config.use_transactions =>
        \A n \in 1..Len(config.tables) :
            LET cs == WriteChunks(n)
                all == FetchedSeq(n)
                N == Len(all)
                b == config.batch_size
            IN  /\ \A k \in 1..Len(cs) :
                       /\ k * b < N + b
                       /\ cs[k] = SubSeq(all, (k - 1) * b + 1, Min(k * b, N))
                /\ (n \in Processed /\ ~Errored(n) /\ N > 0)
                       => Len(cs) = (N + b - 1) \div b

\* Three rows were written in batches of two: a chunk of two rows, then a
\* chunk of one row.
C12_Witness ==
    /\ Returned /\ config.use_transactions /\ config.batch_size = 2
    /\ \E n \in Processed :
           /\ ~Errored(n)
           /\ Len(FetchedSeq(n)) = 3
           /\ Len(WriteChunks(n)) = 2
           /\ Len(WriteChunks(n)[1]) = 2
           /\ Len(WriteChunks(n)[2]) = 1

\* The write of a chunk of mapping n failed at operation k of the call.
ChunkFailedAt(n, k) ==
    /\ k \in OpsOf(n, {"upsert_rows", "commit"})
    /\ ~ops[k].ok

RECURSIVE SumRows(_, _)
SumRows(n, k) ==
    IF k = 0 THEN 0
    ELSE SumRows(n, k - 1)
         + (IF /\ ops[k].m = n /\ ops[k].ok
               /\ ops[k].op = (IF config.use_transactions
                               THEN "commit" ELSE "upsert_rows")
            THEN Len(ops[k].rows) ELSE 0)
WrittenCount(n) == SumRows(n, Len(ops))

\* C14 - a table result with success = true has records_synced equal to the
\* number of rows written to the target for that table in the call (the sum
\* of the sizes of the committed chunks) and records_failed equal to the
\* number of rows fetched minus records_synced.
C14_Counts ==
    \A t \in DOMAIN table_results :
        LET r == table_results[t]
        IN  r.success =>
                /\ r.records_synced = WrittenCount(r.mapping)
                /\ r.records_failed = Len(FetchedSeq(r.mapping)) - r.records_synced

\* A table of three rows was written in two committed chunks and its result
\* counts three records.
C14_Witness ==
    /\ Returned /\ config.use_transactions
    /\ \E t \in DOMAIN result.tables :
           /\ result.tables[t].success
           /\ result.tables[t].records_synced = 3
           /\ result.tables[t].records_failed = 0
           /\ Cardinality(OpsOf(result.tables[t].mapping, {"commit"})) = 2

\* The step is a write that took effect: the INSERT OR REPLACE without
\* transactions, or the COMMIT of a chunk.
WriteTakesEffect ==
    \/ pc = "insert" /\ ~config.use_transactions /\ pc' = "mark"
    \/ pc = "commit" /\ pc' \in {"mark", "begin"}

\* C15 - replace on conflict: after a write that took effect, every written
\* row is the one row of the target table under its primary key (a row that
\* was stored under that key is gone, not merged), the rows stored under
\* other keys are still there, nothing else was added, and the other target
\* tables are as they were.
C15_ReplaceOnConflict ==
    [][WriteTakesEffect =>
        LET t == Mapping_i.target_table
            batch == IF config.use_transactions THEN Chunk ELSE rows
            keys == {KeyOf(Mapping_i, r) : r \in Range(batch)}
        IN  /\ \A r \in Range(batch) :
                   {q \in target'[t] : KeyOf(Mapping_i, q) = KeyOf(Mapping_i, r)} = {r}
            /\ \A q \in target[t] : KeyOf(Mapping_i, q) \notin keys => q \in target'[t]
            /\ target'[t] \subseteq target[t] \cup Range(batch)
            /\ \A u \in TargetTables \ {t} : target'[u] = target[u]]_vars

\* The row stored in tb under key 1 was replaced by the row of the source,
\* and the row under key 9 is still there.
C15_Witness ==
    /\ [k1 |-> "1", k2 |-> "x"] \in target["tb"]
    /\ [k1 |-> "1", k2 |-> "old"] \notin target["tb"]
    /\ [k1 |-> "9", k2 |-> "q"] \in target["tb"]
    /\ \E k \in 1..Len(ops) :
           /\ ops[k].ok
           /\ ops[k].op = (IF config.use_transactions THEN "commit" ELSE "upsert_rows")
           /\ [k1 |-> "1", k2 |-> "x"] \in Range(ops[k].rows)

\* C16 - the conversion of a scalar to a literal is total and round-trips:
\* null gives NULL, a boolean TRUE or FALSE, a number its text, and a string
\* (or the text of an array or object) a literal in single quotes that the
\* engine reads to its closing quote, and not short of it, as the string
\* itself.
C16_LiteralRoundTrip ==
    call.fn = "json_to_sql_literal" =>
        LET v == call.value
            lit == call.ret
        IN  CASE v.type = "null" -> lit = <<"N", "U", "L", "L">>
              [] v.type = "bool" -> lit = (IF v.b THEN <<"T", "R", "U", "E">>
                                           ELSE <<"F", "A", "L", "S", "E">>)
              [] v.type = "number" -> lit = v.text
              [] OTHER ->
                    /\ Len(lit) >= 2 /\ lit[1] = "'"
                    /\ ReadLiteral(lit, 2, <<>>) =
                          [body |-> IF v.type = "string" THEN v.s ELSE to_string(v),
                           end |-> Len(lit)]

\* The string a'b was rendered as 'a''b'.
C16_Witness ==
    /\ call.fn = "json_to_sql_literal"
    /\ call.value = [type |-> "string", s |-> <<"a", "'", "a">>]
    /\ call.ret = <<"'", "a", "'", "'", "a", "'">>

\* C17 - fetch_rows returns exactly the rows of the source table that
\* satisfy the filter of the mapping and, unless full_sync, have a false
\* sync flag: each of them once, all of them when the limit is none and
\* `limit` of them (or all, if fewer) otherwise, and each without the
\* sync flag column.
C17_FetchRows ==
    call.fn = "fetch_rows" =>
        LET m == call.mapping
            rs == call.ret
            expected == {r \in RowsOf(m.source_table) :
                           /\ FilterHolds(m, r)
                           /\ call.full_sync \/ r \notin src_flag[m.source_table]}
        IN  /\ Range(rs) \subseteq expected
            /\ Cardinality(Range(rs)) = Len(rs)
            /\ Len(rs) = IF call.limit = 0 THEN Cardinality(expected)
                          ELSE Min(call.limit, Cardinality(expected))
            /\ \A k \in 1..Len(rs) : DOMAIN rs[k] = SourceColumns

\* C18 - mark_synced(mapping, ids) sets the sync flag on exactly the rows of
\* the source table whose first primary-key column, as text, is in ids (a
\* NULL is in no list), leaves the flags of the other rows and tables as they
\* were, and returns the number of rows the UPDATE matched; with no id it
\* sends no statement, changes nothing and returns 0.
C18_MarkSynced ==
    call.fn = "mark_synced" =>
        LET m == call.mapping
            t == m.source_table
            pk_col == m.primary_key[1]
            hit == {r \in RowsOf(t) : r[pk_col] # NULL /\ r[pk_col] \in call.ids}
        IN  /\ src_flag[t] = call.before[t] \cup hit
            /\ \A u \in SourceTables \ {t} : src_flag[u] = call.before[u]
            /\ call.ret = Cardinality(hit)
            /\ call.statements = (IF call.ids = {} THEN 0 ELSE 1)
            /\ call.ids = {} => src_flag = call.before /\ call.ret = 0

\* mark_synced was called with the ids 1 and null for table b, in which one
\* row has the text null and one row a NULL in the key: one row was marked.
C18_Witness ==
    /\ call.fn = "mark_synced"
    /\ call.mapping.source_table = "b"
    /\ call.ids = {"1", "null"}
    /\ call.before["b"] = {}
    /\ src_flag["b"] = {[k1 |-> "null", k2 |-> "x"]}
    /\ call.ret = 1

\* C19 - unsynced_count(mapping) is the number of rows of the source table
\* whose sync flag is false and that satisfy the filter of the mapping, if
\* it has one: the number of rows an incremental fetch without limit
\* returns for the mapping.
C19_UnsyncedCount ==
    call.fn = "unsynced_count" =>
        LET m == call.mapping
        IN  /\ call.ret = Cardinality({r \in RowsOf(m.source_table) :
                                          /\ r \notin src_flag[m.source_table]
                                          /\ FilterHolds(m, r)})
            /\ \A rs \in fetch_rows(m, FALSE, 0) : call.ret = Len(rs)

\* The row r under the target column names of the mapping.
Renamed(mapping, r) ==
    [c \in {target_column(mapping, src) : src \in DOMAIN r} |->
        r[CHOOSE src \in DOMAIN r : target_column(mapping, src) = c]]

\* C20 - rows are written to the target under target column names: after a
\* write that took effect, the target table holds every written row with
\* each source column under its image in column_mappings, or under its own
\* name when it has none.
C20_TargetColumnNames ==
    [][WriteTakesEffect =>
        LET batch == IF config.use_transactions THEN Chunk ELSE rows
        IN  \A r \in Range(batch) :
                Renamed(Mapping_i, r) \in target'[Mapping_i.target_table]]_vars

\* The columns the mapping asks for: those of its columns list, all the
\* columns of the source but the sync flag when the list is empty.
Projection(mapping) ==
    IF mapping.columns = <<>> THEN SourceColumns ELSE Range(mapping.columns)

\* C21 - the columns list of a mapping is a projection: every row fetched
\* for the mapping, and every row handed to the target for it, has exactly
\* the listed columns, or all the source columns except the sync flag when
\* the list is empty.
C21_ColumnsProjection ==
    \A k \in 1..Len(ops) :
        (ops[k].op \in {"fetch_rows", "upsert_rows"} /\ ops[k].rows # <<>>) =>
            \A r \in Range(ops[k].rows) :
                DOMAIN r = Projection(config.tables[ops[k].m])

\* C22 - a table mapping whose enabled flag is never specified is enabled, on
\* every construction path: TableConfig JSON without "enabled", a
\* deserialized TableMapping without enabled, and TableMappingBuilder::build()
\* without a call of enabled().
C22_EnabledByDefault ==
    (call.fn = "construct" /\ call.field = None) => call.ret.enabled

(***************************************************************************)
(* Properties of the schema reconciliation.                                *)
(***************************************************************************)
\* The step is the reconciliation of the mapping the loop is at (with
\* auto_create_tables off it does nothing).
ReconcileStep == pc = "loop" /\ i <= Len(config.tables) /\ ~Skipped(Mapping_i)

\* The operations the step issued.
NewOps == {k \in 1..Len(ops') : k > Len(ops)}

\* C23 - if the target table already exists, schema reconciliation is a
\* no-op: the step leaves the set of target tables as it is, and issues no
\* introspection of the source and no CREATE for the table.
C23_ExistingTableUntouched ==
    [][(ReconcileStep /\ Mapping_i.target_table \in target_tables) =>
          /\ target_tables' = target_tables
          /\ target' = target
          /\ \A k \in NewOps :
                 ops'[k].op \notin {"introspect_table", "create_table"}]_vars

\* With auto_create_tables on, a mapping whose target table existed was
\* reconciled by the one call of table_exists, and then fetched.
C23_Witness ==
    /\ config.auto_create_tables
    /\ \E n \in Processed :
           /\ \E k \in OpsOf(n, {"table_exists"}) : ops[k].ok
           /\ OpsOf(n, {"introspect_table", "create_table"}) = {}
           /\ \E k \in OpsOf(n, {"fetch_rows"}) : ops[k].ok

\* The introspection of the source table of mapping n returned no column.
ZeroColumns(n) ==
    \E k \in OpsOf(n, {"introspect_table"}) : ops[k].ok /\ ops[k].rows = <<>>

\* C24 - when the target table does not exist and the introspection of the
\* source table returns zero columns, the reconciliation fails with an error
\* of kind Schema and no table is created.
C24_ZeroColumnsSchemaError ==
    \A n \in 1..Len(config.tables) :
        ZeroColumns(n) =>
            /\ \E k \in 1..Len(warnings) :
                   warnings[k].m = n /\ warnings[k].kind = "Schema"
            /\ OpsOf(n, {"create_table"}) = {}

\* The reconciliation of mapping n returned an error.
ReconcileErrored(n) == \E k \in 1..Len(warnings) : warnings[k].m = n

\* C25 - a failure of the schema reconciliation of a mapping (table_exists,
\* introspection or table creation) is not fatal: the step builds no table
\* result and leaves overall_success as it is, fetch_rows is called for the
\* mapping, and the result of the table is success exactly when no fetch,
\* write or checkpoint step of the mapping raised an error.
C25_ReconcileNonFatal ==
    /\ [](\A n \in Processed :
            ReconcileErrored(n) =>
                /\ OpsOf(n, {"fetch_rows"}) # {}
                /\ ResultStands(n) =>
                     LET r == table_results[config.tables[n].source_table]
                     IN  /\ r.mapping = n
                         /\ r.success <=> ~Errored(n)
                         /\ r.success => r.records_synced = WrittenCount(n))
    /\ [][ReconcileStep =>
            /\ table_results' = table_results
            /\ overall_success' = overall_success
            /\ i' = i
            /\ pc' = "fetch"]_vars

\* The reconciliation of a mapping failed, and the rows of the mapping were
\* fetched and written and its table is a success.
C25_Witness ==
    \E n \in Processed :
        /\ ReconcileErrored(n)
        /\ ~Errored(n)
        /\ Committed(n) # {}
        /\ ResultStands(n)
        /\ table_results[config.tables[n].source_table].success

(***************************************************************************)
(* Properties of the type mapping and of the error kinds.                  *)
(***************************************************************************)
\* The type names of the target.
TargetTypes ==
    {"BOOLEAN", "SMALLINT", "INTEGER", "BIGINT", "REAL", "DOUBLE", "DECIMAL",
     "DECIMAL(38,9)", "VARCHAR", "DATE", "TIME", "TIMESTAMP", "TIMESTAMPTZ",
     "JSON", "BLOB"}

\* C26 - the type mapping is total and deterministic: every source type
\* name maps to one target type, the same for every spelling of the name in
\* upper and lower case; numeric and decimal (with or without arguments) are
\* emitted as a decimal of precision 38 and scale 9, timestamptz and
\* timestamp with time zone as TIMESTAMPTZ, and a name the mapping does not
\* know (hstore) as the unbounded string type VARCHAR.
C26_TypeMapping ==
    call.fn = "map_type" =>
        /\ call.ret \in TargetTypes
        /\ call.ret = to_duckdb(from_postgres(call.name))
        /\ (\/ starts_with(call.name, <<"n", "u", "m", "e", "r", "i", "c">>)
            \/ starts_with(call.name, <<"d", "e", "c", "i", "m", "a", "l">>))
               => call.ret = "DECIMAL(38,9)"
        /\ call.name \in {<<"t", "i", "m", "e", "s", "t", "a", "m", "p", "t", "z">>,
                          <<"t", "i", "m", "e", "s", "t", "a", "m", "p", " ", "w", "i", "t", "h", " ",
                            "t", "i", "m", "e", " ", "z", "o", "n", "e">>}
               => call.ret = "TIMESTAMPTZ"
        /\ call.name = <<"h", "s", "t", "o", "r", "e">> => call.ret = "VARCHAR"

\* C27 - only the connection errors (of the source and of the target) and
\* the I/O errors are retryable: is_retryable() is true for an error of kind
\* PostgresConnection, MotherDuckConnection or Io, and false for an error of
\* any other kind (Config, the two Query kinds, Schema, Validation,
\* Serialization, Sync, RetryExhausted, Cancelled).
C27_Retryable ==
    call.fn = "is_retryable" =>
        /\ call.code \in {"PG_CONNECTION_ERROR", "MD_CONNECTION_ERROR", "IO_ERROR"}
               => call.ret
        /\ call.code \in {"CONFIG_ERROR", "PG_QUERY_ERROR", "MD_QUERY_ERROR",
                          "SCHEMA_ERROR", "VALIDATION_ERROR",
                          "SERIALIZATION_ERROR", "SYNC_ERROR", "RETRY_EXHAUSTED",
                          "CANCELLED"}
               => ~call.ret
        /\ call.ret <=> call.error.kind \in
               {"PostgresConnection", "MotherDuckConnection", "Io"}

\* A connection error of the target was found retryable.
C27_Witness ==
    /\ call.fn = "is_retryable"
    /\ call.error.kind = "MotherDuckConnection"
    /\ call.ret

C29_Sequential ==
    /\ [](/\ \A j, k \in 1..Len(ops) : j < k => ops[j].m <= ops[k].m
          /\ \A j, k \in 1..Len(events) : j < k => events[j].m <= events[k].m
          /\ \A k \in 1..Len(events) :
                 events[k].progress.table = config.tables[events[k].m].source_table
          /\ \A k \in 1..Len(ops) : ops[k].m <= Min(i, Len(config.tables)))
    /\ [][pc \notin {"idle", "returned", "calls"} =>
            /\ i' \in {i, i + 1}
            /\ \A k \in NewOps : ops'[k].m = i
            /\ \A k \in 1..Len(events') : k > Len(events) => events'[k].m = i]_vars

\* sync() returned after the operations of the first mapping, all of them
\* before the first operation of the second.
C29_Witness ==
    /\ Returned
    /\ OpsOf(1, TableSteps) # {}
    /\ OpsOf(2, TableSteps) # {}
    /\ \A j \in OpsOf(1, TableSteps) : \A k \in OpsOf(2, TableSteps) : j < k
    /\ config.tables[1].source_table # config.tables[2].source_table

\* n double quotes.
Quotes(n) == [k \in 1..n |-> "\""]

\* The text without the double quotes around it.
Unquoted(text, id) ==
    /\ \E a, b \in 0..Len(text) : text = Quotes(a) \o id \o Quotes(b)
    /\ id # <<>> => (id[1] # "\"" /\ id[Len(id)] # "\"")
    /\ id = <<>> => text = Quotes(Len(text))

\* C30 - the checkpoint id list has one id for every fetched row that has an
\* entry under the first primary-key column, in the order of the rows: the
\* content of a string as it is, for any other value (a null among them) its
\* text without the double quotes around it; a row with no entry for the
\* column adds no id, and the list is built whatever the rows are.
C30_CheckpointIds ==
    call.fn = "checkpoint_ids" =>
        LET rs == call.rows
            keyed == SelectSeq(rs, LAMBDA r : call.pk_col \in DOMAIN r)
            ids == call.ret
        IN  /\ Len(ids) = Len(keyed)
            /\ \A k \in 1..Len(keyed) :
                   LET v == keyed[k][call.pk_col]
                   IN  IF v.type = "string"
                       THEN ids[k] = v.s
                       ELSE Unquoted(value_to_string(v), ids[k])

\* Of two fetched rows the first has no key column and the second has the
\* string "a (a double quote, then a) in it: the one id is that string.
C30_Witness ==
    /\ call.fn = "checkpoint_ids"
    /\ Len(call.rows) = 2
    /\ "k1" \notin DOMAIN call.rows[1]
    /\ "k1" \in DOMAIN call.rows[2]
    /\ call.rows[2]["k1"] = [type |-> "string", s |-> <<"\"", "a">>]
    /\ call.ret = << <<"\"", "a">> >>

(***************************************************************************)
(* Properties of the write.                                                *)
(***************************************************************************)
\* Column a comes before column b in the order of their bytes.
Before(a, b) ==
    \E j, k \in 1..Len(SortedNames) :
        j < k /\ SortedNames[j] = a /\ SortedNames[k] = b

\* C31 - the column list of a write statement is the key set of the first
\* of its rows, each key once and in sorted order, and every row gives one
\* value for each listed column: its own value when it has the key, NULL
\* when it has not.
C31_StatementColumns ==
    (call.fn = "upsert_rows" /\ call.rows # <<>>) =>
        LET rs == call.rows
            st == call.statement[1]
        IN  /\ Range(st.columns) = DOMAIN rs[1]
            /\ Len(st.columns) = Cardinality(DOMAIN rs[1])
            /\ \A j, k \in 1..Len(st.columns) :
                   j < k => Before(st.columns[j], st.columns[k])
            /\ Len(st.values) = Len(rs)
            /\ \A n \in 1..Len(rs) :
                   /\ Len(st.values[n]) = Len(st.columns)
                   /\ \A k \in 1..Len(st.columns) :
                          st.values[n][k] =
                              IF st.columns[k] \in DOMAIN rs[n]
                              THEN rs[n][st.columns[k]] ELSE NULL

\* The first row has the columns k2 and Z and the second row has k1 only:
\* the statement lists Z, k2 and the second row gives NULL for both.
C31_Witness ==
    /\ call.fn = "upsert_rows"
    /\ Len(call.rows) = 2
    /\ DOMAIN call.rows[1] = {"k2", "Z"}
    /\ DOMAIN call.rows[2] = {"k1"}
    /\ call.statement[1].columns = <<"Z", "k2">>
    /\ call.statement[1].values[2] = <<NULL, NULL>>

\* C32 - without transactions no BEGIN, COMMIT or ROLLBACK is sent to the
\* target, and a table whose fetch returned rows is written with exactly one
\* INSERT statement, which holds all the fetched rows in their order,
\* whatever the batch size.
C32_OneStatement ==
    ~config.use_transactions =>
        /\ \A k \in 1..Len(ops) : ops[k].op \notin {"begin", "commit", "rollback"}
        /\ \A n \in Processed :
               FetchedSeq(n) # <<>> =>
                   /\ Len(WriteChunks(n)) = 1
                   /\ WriteChunks(n)[1] = FetchedSeq(n)

\* Three rows are fetched with batch size 1 and written by one statement.
C32_Witness ==
    /\ Returned /\ ~config.use_transactions /\ config.batch_size = 1
    /\ \E n \in Processed :
           /\ ~Errored(n)
           /\ Len(FetchedSeq(n)) = 3
           /\ WriteChunks(n) = <<FetchedSeq(n)>>

(***************************************************************************)
(* Properties of the DDL.                                                  *)
(***************************************************************************)
\* The parts of a text between the occurrences of the separator.
RECURSIVE SplitAt(_, _)
SplitAt(text, sep) ==
    LET at == {j \in 1..Len(text) : text[j] = sep}
    IN  IF at = {} THEN <<text>>
        ELSE LET j == CHOOSE x \in at : \A y \in at : x <= y
             IN  <<SubSeq(text, 1, j - 1)>>
                 \o SplitAt(SubSeq(text, j + 1, Len(text)), sep)

\* What stands between the parentheses of a CREATE TABLE statement, item by
\* item; the PRIMARY KEY clause among the items, and the definitions.
DdlItems(ddl) == SplitAt(SubSeq(ddl, 4, Len(ddl) - 1), ",\n")
IsKeyClause(item) == item # <<>> /\ item[1] = "    PRIMARY KEY ("
KeyClauses(ddl) == SelectSeq(DdlItems(ddl), IsKeyClause)
ColumnDefs(ddl) == SelectSeq(DdlItems(ddl), LAMBDA item : ~IsKeyClause(item))

\* The names a PRIMARY KEY clause lists.
KeyNames(clause) ==
    SelectSeq(SubSeq(clause, 2, Len(clause) - 1), LAMBDA piece : piece # ", ")

\* C33 - the generated DDL is CREATE TABLE IF NOT EXISTS with one column
\* definition for each column, in the order of the columns, each with the
\* name and the target type of its column and with NOT NULL exactly when the
\* column is not nullable; a PRIMARY KEY clause follows the definitions and
\* lists the primary-key columns in the order of primary_key, and there is
\* no such clause exactly when primary_key is empty.
C33_Ddl ==
    call.fn = "to_duckdb_ddl" =>
        LET table == call.table
            ddl == call.ret
            defs == ColumnDefs(ddl)
            keys == KeyClauses(ddl)
        IN  /\ SubSeq(ddl, 1, 3) = <<"CREATE TABLE IF NOT EXISTS ", table.name, " (\n">>
            /\ ddl[Len(ddl)] = "\n)"
            /\ Len(defs) = Len(table.columns)
            /\ \A k \in 1..Len(defs) :
                   /\ SubSeq(defs[k], 1, 4) =
                          <<"    ", table.columns[k].name, " ",
                            to_duckdb(table.columns[k].column_type)>>
                   /\ "NOT NULL" \in Range(defs[k]) <=> ~table.columns[k].nullable
            /\ Len(keys) = IF table.primary_key = <<>> THEN 0 ELSE 1
            /\ keys # <<>> =>
                   /\ KeyNames(keys[1]) = table.primary_key
                   /\ DdlItems(ddl)[Len(DdlItems(ddl))] = keys[1]

\* A table of a nullable and a non-nullable column with the primary key
\* (k2, k1), and a table with no primary key, have their DDL generated.
C33_Witness ==
    /\ call.fn = "to_duckdb_ddl"
    /\ Len(call.table.columns) = 2
    /\ call.table.columns[1].nullable /\ ~call.table.columns[2].nullable
    /\ call.table.columns[1].default # None
    /\ call.table.primary_key = <<"k2", "k1">>
    /\ KeyNames(KeyClauses(call.ret)[1]) = <<"k2", "k1">>
    /\ "NOT NULL" \notin Range(ColumnDefs(call.ret)[1])
    /\ "NOT NULL" \in Range(ColumnDefs(call.ret)[2])

(***************************************************************************)
(* Properties of the transactions and of the results.                      *)
(***************************************************************************)
\* C34 - when batch_upsert has returned, with a count or with an error,
\* every transaction it began has been ended by a COMMIT or a ROLLBACK that
\* succeeded, and no transaction is open on the target connection outside
\* the write of a chunk.
C34_TransactionsEnded ==
    /\ \A n \in Processed :
           \A k \in OpsOf(n, {"begin"}) :
               ops[k].ok =>
                   \E j \in OpsOf(n, {"commit", "rollback"}) : j > k /\ ops[j].ok
    /\ tx_open => pc \in {"insert", "commit"}

\* Mapping n is the only enabled mapping of the configuration that reads its
\* source table.
OnlyReader(n) ==
    \A k \in EnabledMappings :
        config.tables[k].source_table = config.tables[n].source_table => k = n

\* The rows of the chunks of mapping n committed before its write failed are
\* unsynced at the source and every incremental fetch of the mapping from
\* this state returns them.
RefetchedNext(n) ==
    /\ Committed(n) \cap src_flag[config.tables[n].source_table] = {}
    /\ \A rs \in fetch_rows(config.tables[n], FALSE, config.max_records) :
           Committed(n) \subseteq Range(rs)

C36_FailedResultIsZero ==
    \A t \in DOMAIN table_results :
        LET r == table_results[t]
        IN  /\ ~r.success =>
                   /\ r.records_synced = 0
                   /\ r.records_failed = 0
                   /\ r.error # None
            /\ r.success => r.error = None

\* A returned result has a failed table with rows committed to the target:
\* all its rows, when its checkpoint failed, or its first chunks.
C36_Witness ==
    /\ Returned
    /\ \E t \in DOMAIN result.tables :
           LET r == result.tables[t]
           IN  /\ ~r.success /\ r.records_synced = 0 /\ r.error # None
               /\ Committed(r.mapping) # {}
               /\ \/ \E k \in OpsOf(r.mapping, {"update"}) : ~ops[k].ok
                  \/ WriteFailed(r.mapping)

\* C37 - the write is all or error: every table result with success = true
\* has records_failed = 0 and records_synced equal to the number of rows
\* fetched for the table, with transactions and without.
C37_AllOrError ==
    \A t \in DOMAIN table_results :
        LET r == table_results[t]
        IN  r.success =>
                /\ r.records_failed = 0
                /\ r.records_synced = Len(FetchedSeq(r.mapping))

\* The three rows fetched for a table were written by one statement without
\* transactions and its result counts three records and no failed one.
C37_Witness ==
    /\ Returned /\ ~config.use_transactions
    /\ \E t \in DOMAIN result.tables :
           LET r == result.tables[t]
           IN  /\ r.success
               /\ Len(FetchedSeq(r.mapping)) = 3
               /\ r.records_synced = 3
               /\ r.records_failed = 0

\* C38 - sync() ends with an error instead of a SyncResult only when
\* auto_create_tables is on and the initial ensure_schema /
\* create_analytics_tables step failed, and then nothing was fetched, written
\* or checkpointed for any mapping; every other call ends with a SyncResult,
\* whatever happens while its tables are synced.
C38_ErrorOnlyFromSchemaStep ==
    /\ (pc = "returned" /\ result.kind = "err") =>
           /\ config.auto_create_tables
           /\ ops = <<Op("ensure_schema", 0, FALSE, <<>>, {})>>
           /\ table_results = <<>>
    /\ pc \notin {"idle", "returned"} =>
           ENABLED (SkipDisabled \/ EnsureTargetTable \/ FetchRows
                    \/ BeginTransaction \/ UpsertRows \/ Commit
                    \/ MarkSynced \/ Finish)

\* The percent values the callback received while mapping n was synced.
PercentsOf(n) ==
    LET mine == SelectSeq(events, LAMBDA e : e.m = n)
    IN  [k \in 1..Len(mine) |-> mine[k].progress.percent]

\* The callback was handed a Completed event for mapping n.
CompletedReported(n) == \E k \in 1..Len(PhasesOf(n)) : PhasesOf(n)[k] = "Completed"

\* C39 - within one table the percent values of the progress events never
\* decrease: Fetching is 0, Inserting 25, Marking 75, Completed 100.  A
\* Completed event is the last event of its table and is emitted only when
\* every fetched row was written and, if the table is to be checkpointed,
\* the checkpoint succeeded: no step of the table failed, and no table
\* result with success = false is the result of a table with a Completed
\* event.
C39_ProgressMonotone ==
    /\ \A n \in 1..Len(config.tables) :
           LET phases == PhasesOf(n)
               percents == PercentsOf(n)
           IN  /\ \A j, k \in 1..Len(percents) : j < k => percents[j] <= percents[k]
               /\ \A k \in 1..Len(percents) :
                      percents[k] = CASE phases[k] = "Fetching" -> 0
                                      [] phases[k] = "Inserting" -> 25
                                      [] phases[k] = "Marking" -> 75
                                      [] phases[k] = "Completed" -> 100
                                      [] OTHER -> -1
               /\ CompletedReported(n) =>
                      /\ phases[Len(phases)] = "Completed"
                      /\ ~Errored(n)
                      /\ FetchedSeq(n) # <<>>
                      /\ WrittenCount(n) = Len(FetchedSeq(n))
                      /\ (mode = "incremental" /\ config.mark_synced) =>
                             \E k \in OpsOf(n, {"mark_synced"}) : ops[k].ok
    /\ \A t \in DOMAIN table_results :
           ~table_results[t].success => ~CompletedReported(table_results[t].mapping)

\* A run has returned in which one table was reported at 0, 25, 75 and 100
\* percent and another failed in its checkpoint, after Marking, with no
\* Completed event.
C39_Witness ==
    /\ Returned
    /\ \E n \in Processed : PercentsOf(n) = <<0, 25, 75, 100>>
    /\ \E t \in DOMAIN result.tables :
           /\ ~result.tables[t].success
           /\ PhasesOf(result.tables[t].mapping) = <<"Fetching", "Inserting", "Marking">>

====
